---- MODULE Spec2Model ----
(***************************************************************************)
(* Review-request lifecycle of reviewboard/reviews/models.py: creation,    *)
(* draft editing, publication, closing, reopening and deletion, with the   *)
(* counters (Group.incoming_request_count, LocalSiteProfile counters) and  *)
(* the change-description history they maintain.                           *)
(*                                                                         *)
(* The database is the state.  Every handler runs on an instance freshly   *)
(* loaded from its row, so inside one action "self" starts equal to the    *)
(* row and the row read back by _update_counts is the row as last saved.   *)
(*                                                                         *)
(* Spec is the lifecycle: there callers edit a draft's summary and target  *)
(* sets only, so bugs_closed, the screenshot and file-attachment sets and  *)
(* the diffset keep their defaults.  PublishSpec publishes drafts edited   *)
(* in every field, from the states a request with a draft can be in.       *)
(* AccessSpec asks the access questions (ReviewRequest.is_accessible_by,   *)
(* is_mutable_by, Review.is_accessible_by) over the groups, their members  *)
(* and the request's targets.  The visits of a request are not carried.    *)
(*                                                                         *)
(* DraftSpec and RaceSpec run two callers at the same time, statement by   *)
(* statement: ReviewRequestDraft.create in DraftSpec, where the drafts are *)
(* rows by primary key, and ReviewRequest.publish in RaceSpec, where each  *)
(* caller holds the instance it loaded.  FaultSpec is the lifecycle up to  *)
(* the first call that an exception of the database or of a signal         *)
(* receiver stops.  ReviewersSpec applies the DefaultReviewer rules to a   *)
(* review request and to its draft.                                        *)
(*                                                                         *)
(* DraftPublishSpec calls ReviewRequestDraft.publish on its own, on the    *)
(* drafts of PublishSpec.  FieldsSpec saves a review request or a draft    *)
(* whose summary or bug string a caller has set, and reads the bug list.   *)
(* ClosedSpec goes on from a request that has just been closed.            *)
(* ReviewsSpec publishes the reviews of a public request.                  *)
(***************************************************************************)
EXTENDS Integers, Sequences, FiniteSets, TLC

\* ---------------------------------------------------------------- bounds

\* Readings of datetime.now() that store a timestamp.
MaxClock == 3
\* How far from zero a counter may be driven.
MaxDrift == 2

\* ------------------------------------------------------------- constants

MAX_SUMMARY_LENGTH == 300

PENDING_REVIEW == "P"
SUBMITTED == "S"
DISCARDED == "D"

\* Python's None, for an optional user, description or old status.
None == "None"

\* Primary keys of the review requests created (a key is never reused).
ReviewRequestIds == {1}

\* auth.User rows with their permissions (the identity provider's data).
Users == {"alice", "bob", "carol"}

\* Those who ask to read: the users, a superuser (who holds every permission)
\* and the AnonymousUser of a request that is not logged in.
Viewers == Users \cup {"root", "anonymous"}

UserPerms ==
    [alice |-> {"reviews.can_edit_reviewrequest"},
     bob   |-> {"reviews.can_change_status"},
     carol |-> {},
     root  |-> {"reviews.can_edit_reviewrequest", "reviews.can_change_status"},
     anonymous |-> {}]

\* user.is_superuser and user.is_authenticated().
is_superuser(user) == user = "root"
is_authenticated(user) == user # "anonymous"

has_perm(user, perm) == perm \in UserPerms[user]

\* Group rows and their members (Group.users).
Groups == {"g1"}
GroupUsers == [g1 |-> {"bob"}]

\* Values a caller passes in.
Submitters == {"carol"}
Summaries == {"fix"}
TargetPeople == {}
Descriptions == {None, "done"}
CloseTypes == {SUBMITTED, DISCARDED, PENDING_REVIEW, "X"}

\* ----------------------------------------------------------------- state

VARIABLES
    review_requests,        \* ReviewRequest rows by primary key
    drafts,                 \* ReviewRequestDraft rows by review_request (unique)
    incoming_request_count, \* Group.incoming_request_count by group
    site_profiles,          \* LocalSiteProfile counters by user
    next_id,                \* next primary key of ReviewRequest
    now,                    \* datetime.now(), as a logical clock
    last,                   \* the last call: its exception and signals
    trip,                   \* progress of a close, reopen, publish round trip
    group_rows,             \* Group rows by name: members and flags
    answer,                 \* the last access question and what was returned
    media,                  \* Screenshot and FileAttachment rows by id
    calls,                  \* the calls in flight, by caller: position, locals
    draft_rows,             \* ReviewRequestDraft rows by primary key
    sequential,             \* the counters concurrent calls give in sequence
    default_reviewers,      \* DefaultReviewer rows
    filediffs,              \* FileDiff paths by diffset
    reviews,                \* Review rows by primary key
    shipit_count            \* ReviewRequest.shipit_count by review request

vars == <<review_requests, drafts, incoming_request_count, site_profiles,
          next_id, now, last, trip, group_rows, answer, media, calls,
          draft_rows, sequential, default_reviewers, filediffs, reviews,
          shipit_count>>

\* What only the specifications of concurrent calls, of the default
\* reviewers and of the reviews use.
aside == <<calls, draft_rows, sequential, default_reviewers, filediffs,
          reviews, shipit_count>>

\* What the lifecycle operations of a review request leave alone.
world == <<group_rows, answer, aside>>

db == <<review_requests, drafts, incoming_request_count, site_profiles,
        media>>

\* ------------------------------------------------------- pure functions

\* str.find('.'): the first full stop.
find_dot(string, i) ==
    LET dots == {j \in 1..i : SubSeq(string, j, j) = "."}
    IN IF dots = {} THEN 0 ELSE CHOOSE j \in dots : \A k \in dots : j <= k

\* str.rfind('.') on the 1-based string, among its first i characters: the
\* position of the last full stop, 0 when there is none.
rfind_dot(string, i) ==
    LET dots == {j \in 1..i : SubSeq(string, j, j) = "."}
    IN IF dots = {} THEN 0 ELSE CHOOSE j \in dots : \A k \in dots : k <= j

truncate(string, num) ==
    IF Len(string) > num
    THEN LET cut == SubSeq(string, 1, num)
             i == rfind_dot(cut, Len(cut))
         IN IF i # 0 THEN SubSeq(cut, 1, i) ELSE cut
    ELSE string

\* The characters of a bug string, in the order of their code points.
Alphabet == " ,0123456789ab"

\* ord(ch): the rank of the character in that order.
ord(ch) == CHOOSE i \in 1..Len(Alphabet) : SubSeq(Alphabet, i, i) = ch

\* re.split(r"[, ]+", string), scanning from position i: cur is the piece
\* being read, acc the pieces before it, insep whether the last character
\* read was a separator.  A separator run at either end yields an empty piece.
RECURSIVE re_split(_, _, _, _, _)
re_split(string, i, cur, acc, insep) ==
    IF i > Len(string) THEN Append(acc, cur)
    ELSE LET ch == SubSeq(string, i, i)
         IN IF ch \in {",", " "}
            THEN IF insep
                 THEN re_split(string, i + 1, cur, acc, TRUE)
                 ELSE re_split(string, i + 1, "", Append(acc, cur), TRUE)
            ELSE re_split(string, i + 1, cur \o ch, acc, FALSE)

\* Whether int(x) returns (x is a run of digits) and what it returns.
is_int(x) ==
    /\ Len(x) > 0
    /\ \A i \in 1..Len(x) : ord(SubSeq(x, i, i)) \in ord("0")..ord("9")

RECURSIVE int(_)
int(x) ==
    IF Len(x) = 0 THEN 0
    ELSE 10 * int(SubSeq(x, 1, Len(x) - 1))
            + (ord(SubSeq(x, Len(x), Len(x))) - ord("0"))

\* x < y for strings, as Python compares them.
RECURSIVE str_lt(_, _)
str_lt(x, y) ==
    IF Len(y) = 0 THEN FALSE
    ELSE IF Len(x) = 0 THEN TRUE
    ELSE LET a == ord(SubSeq(x, 1, 1))
             b == ord(SubSeq(y, 1, 1))
         IN IF a # b THEN a < b
            ELSE str_lt(SubSeq(x, 2, Len(x)), SubSeq(y, 2, Len(y)))

\* list.sort (stable): x is inserted after the elements that are not
\* greater.  numeric chooses cmp(int(x), int(y)) over the string order.
lt(x, y, numeric) == IF numeric THEN int(x) < int(y) ELSE str_lt(x, y)

RECURSIVE insert(_, _, _)
insert(sorted, x, numeric) ==
    IF sorted = <<>> THEN <<x>>
    ELSE IF lt(x, sorted[1], numeric)
    THEN <<x>> \o sorted
    ELSE <<sorted[1]>> \o insert(Tail(sorted), x, numeric)

RECURSIVE sort(_, _)
sort(bugs, numeric) ==
    IF bugs = <<>> THEN <<>>
    ELSE insert(sort(SubSeq(bugs, 1, Len(bugs) - 1), numeric),
                bugs[Len(bugs)], numeric)

\* get_bug_list of ReviewRequest and of ReviewRequestDraft, on bugs_closed: a
\* numeric sort, and an alphabetical one when some piece is not a number.
get_bug_list(bugs_closed) ==
    IF bugs_closed = "" THEN <<>>
    ELSE LET bugs == re_split(bugs_closed, 1, "", <<>>, FALSE)
         IN sort(bugs, \A i \in 1..Len(bugs) : is_int(bugs[i]))

\* set(bugs).
set(list) == {list[i] : i \in 1..Len(list)}

\* str.strip().
RECURSIVE strip(_)
strip(string) ==
    IF Len(string) = 0 THEN string
    ELSE IF SubSeq(string, 1, 1) = " "
    THEN strip(SubSeq(string, 2, Len(string)))
    ELSE IF SubSeq(string, Len(string), Len(string)) = " "
    THEN strip(SubSeq(string, 1, Len(string) - 1))
    ELSE string

is_mutable_by_owner(self, user) ==
    \/ self.submitter = user
    \/ has_perm(user, "reviews.can_edit_reviewrequest")

\* ReviewRequest.is_mutable_by(user).
is_mutable_by(self, user) ==
    has_perm(user, "reviews.can_edit_reviewrequest")

\* ChangeDescription(public=..., text=...) as constructed at time t.
ChangeDescription(public, text, t) ==
    [text |-> text, public |-> public, timestamp |-> t,
     fields_changed |-> <<>>]

\* ChangeDescription.record_field_change: the entry for name is (re)set.
record_field_change(changedesc, name, old, new) ==
    [changedesc EXCEPT !.fields_changed =
        (name :> [old |-> old, new |-> new]) @@ @]

earliest_public(changedescs) ==
    LET pub == {i \in 1..Len(changedescs) : changedescs[i].public}
    IN IF pub = {} THEN 0
       ELSE CHOOSE i \in pub :
                \A j \in pub : changedescs[i].timestamp <= changedescs[j].timestamp

\* changedescs.filter(public=True).latest(): index of the public entry with
\* the greatest timestamp, 0 when there is none (DoesNotExist).
latest_public(changedescs) ==
    LET pub == {i \in 1..Len(changedescs) : changedescs[i].public}
    IN IF pub = {} THEN 0
       ELSE CHOOSE i \in pub :
                \A j \in pub : changedescs[j].timestamp <= changedescs[i].timestamp

\* ------------------------------------------------------------- counters

Counts == [groups |-> incoming_request_count, profiles |-> site_profiles]

add_profile(c, user, field, by) ==
    [c EXCEPT !.profiles[user][field] = @ + by]

\* The four querysets of counters a public request contributes to, moved by
\* `by` (CounterField.increment / decrement are UPDATE ... SET f = f + by).
\* starred_public_request_count is left out: no operation of this file stars
\* a request, so its queryset is always empty.
add_incoming(c, target_groups, target_people, by) ==
    LET touched == target_people \cup
                   UNION {group_rows[g].users : g \in target_groups}
    IN [groups |-> [g \in DOMAIN c.groups |->
                       IF g \in target_groups THEN c.groups[g] + by
                       ELSE c.groups[g]],
        profiles |-> [u \in Users |->
            [c.profiles[u] EXCEPT
                !.direct_incoming_request_count =
                    IF u \in target_people THEN @ + by ELSE @,
                !.total_incoming_request_count =
                    IF u \in touched THEN @ + by ELSE @]]]

\* The counters stay within the range explored.
InRange(c) ==
    /\ \A g \in DOMAIN c.groups : c.groups[g] \in -MaxDrift..MaxDrift
    /\ \A u \in Users : \A f \in DOMAIN c.profiles[u] :
            c.profiles[u][f] \in -MaxDrift..MaxDrift

\* ReviewRequest._update_counts.  `self` is the instance being saved,
\* is_new is "self.id is None", old_status and old_public are read from the
\* row in the database (None and False for a new instance).
update_counts(self, is_new, old_status, old_public, c) ==
    LET c1 == IF is_new
              THEN add_profile(c, self.submitter,
                               "total_outgoing_request_count", 1)
              ELSE c
    IN IF self.status = PENDING_REVIEW
       THEN LET c2 == IF old_status # self.status
                      THEN add_profile(c1, self.submitter,
                                       "pending_outgoing_request_count", 1)
                      ELSE c1
            IN IF self.public /\ ~is_new
               THEN add_incoming(c2, self.target_groups, self.target_people, 1)
               ELSE c2
       ELSE LET c2 == IF old_status # self.status
                      THEN add_profile(c1, self.submitter,
                                       "pending_outgoing_request_count", -1)
                      ELSE c1
            IN IF old_public
               THEN add_incoming(c2, self.target_groups, self.target_people, -1)
               ELSE c2

\* ReviewRequest.save and ReviewRequestDraft.save: what is written to the row.
saved(self) ==
    [self EXCEPT !.bugs_closed = strip(@),
                 !.summary = truncate(@, MAX_SUMMARY_LENGTH)]

\* ------------------------------------------------------------ the calls

\* A Group row as created: open to all, not ready for reviews, of no site.
Group(users) ==
    [users |-> users, invite_only |-> FALSE, ready_for_reviews |-> FALSE,
     local_site |-> None]

\* No access question asked yet.
NoAnswer == [op |-> "none"]

\* No Screenshot and no FileAttachment row.
NoMedia == [screenshots |-> <<>>, file_attachments |-> <<>>]

\* What the last call was and how it ended: the method, the review request,
\* the exception raised (None when it returned) and the signals sent, in order.
Call(op, r, raised, signals) ==
    [op |-> op, r |-> r, raised |-> raised, signals |-> signals]

\* A signal sent: its name, its review_request and its type or changedesc
\* argument (<<>> for a changedesc of None).
Signal(name, r, type, changedesc) ==
    [signal |-> name, review_request |-> r, type |-> type,
     changedesc |-> changedesc]

\* The round trip close(Discarded), reopen, publish on a public Pending
\* request: how many of its calls have just been made in a row, and the
\* length of the history before the first.  Calls that raise change nothing
\* and are not counted; any other call ends the trip.
round_trip(op, r, raised, starts, length) ==
    IF raised # None THEN trip
    ELSE IF starts THEN [stage |-> 1, r |-> r, base |-> length]
    ELSE IF op = "reopen" /\ trip.stage = 1 /\ trip.r = r
    THEN [trip EXCEPT !.stage = 2]
    ELSE IF op = "publish" /\ trip.stage = 2 /\ trip.r = r
    THEN [trip EXCEPT !.stage = 3]
    ELSE [stage |-> 0, r |-> 0, base |-> 0]

\* No call in flight, no default reviewer and no diff.
Quiet ==
    /\ calls = <<>>
    /\ draft_rows = <<>>
    /\ sequential = <<>>
    /\ default_reviewers = <<>>
    /\ filediffs = <<>>
    /\ reviews = <<>>
    /\ shipit_count = <<>>

Init ==
    /\ Quiet
    /\ review_requests = <<>>
    /\ drafts = <<>>
    /\ incoming_request_count = [g \in Groups |-> 0]
    /\ site_profiles = [u \in Users |->
            [pending_outgoing_request_count |-> 0,
             total_outgoing_request_count |-> 0,
             direct_incoming_request_count |-> 0,
             total_incoming_request_count |-> 0]]
    /\ next_id = 1
    /\ now = 0
    /\ last = Call("init", 0, None, <<>>)
    /\ trip = [stage |-> 0, r |-> 0, base |-> 0]
    /\ group_rows = [g \in Groups |-> Group(GroupUsers[g])]
    /\ answer = NoAnswer
    /\ media = NoMedia

\* ReviewRequest(submitter=..., repository=...): the field defaults.
ReviewRequest(submitter, repository) ==
    [submitter |-> submitter, status |-> PENDING_REVIEW,
     public |-> FALSE, summary |-> "", description |-> "",
     testing_done |-> "", branch |-> "",
     target_groups |-> {}, target_people |-> {},
     changedescs |-> <<>>, repository |-> repository,
     bugs_closed |-> "",
     screenshots |-> {}, inactive_screenshots |-> {},
     file_attachments |-> {}, inactive_file_attachments |-> {},
     diffset_history |-> {}, last_review_timestamp |-> None]

\* ReviewRequestManager.create: a new Pending, non-public request owned by
\* its submitter, saved for the first time (save with self.id None).
Create(user) ==
    /\ next_id \in ReviewRequestIds
    /\ UNCHANGED world
    /\ LET self == ReviewRequest(user, None)
           c == update_counts(self, TRUE, None, FALSE, Counts)
       IN /\ InRange(c)
          /\ review_requests' = (next_id :> saved(self)) @@ review_requests
          /\ incoming_request_count' = c.groups
          /\ site_profiles' = c.profiles
    /\ next_id' = next_id + 1
    /\ last' = Call("create", next_id, None, <<>>)
    /\ trip' = round_trip("create", next_id, None, FALSE, 0)
    /\ UNCHANGED <<drafts, now, media>>

\* ---------------------------------------------------------------- drafts

\* draft_caption = caption on the rows of the ids given (a new draft starts
\* from the captions shown).
reset_draft_captions(rows, ids) ==
    [id \in DOMAIN rows |->
        IF id \in ids
        THEN [rows[id] EXCEPT !.draft_caption = rows[id].caption]
        ELSE rows[id]]

\* The draft get_or_create makes from its defaults.
ReviewRequestDraft(review_request) ==
    [summary |-> review_request.summary,
     description |-> review_request.description,
     testing_done |-> review_request.testing_done,
     bugs_closed |-> review_request.bugs_closed,
     branch |-> review_request.branch,
     changedesc |-> <<>>, diffset |-> None,
     target_groups |-> {}, target_people |-> {},
     screenshots |-> {}, inactive_screenshots |-> {},
     file_attachments |-> {}, inactive_file_attachments |-> {}]

get_or_create_always_new(rows, r) == TRUE

\* draft_is_new, the second value get_or_create returns: whether there was
\* no draft of review request r.
is_new(rows, r) == r \notin DOMAIN rows

\* ReviewRequestDraft.objects.get_or_create(...) and the rest of
\* ReviewRequestDraft.create, for the instance review_request with key r, at
\* time t: the draft returned, whether it is new, and the draft rows after it.
\* The ChangeDescription given to an existing draft is set on the returned
\* instance only; draft.save() runs for a new draft alone.
draft_create(review_request, r, rows, t) ==
    LET draft_is_new == is_new(rows, r)
        draft == IF draft_is_new
                 THEN ReviewRequestDraft(review_request)
                 ELSE rows[r]
        withdesc == IF draft.changedesc = <<>> /\ review_request.public
                    THEN [draft EXCEPT !.changedesc =
                              <<ChangeDescription(FALSE, "", t)>>]
                    ELSE draft
        copied == [withdesc EXCEPT
                      !.target_groups = review_request.target_groups,
                      !.target_people = review_request.target_people,
                      !.screenshots = review_request.screenshots,
                      !.inactive_screenshots =
                            review_request.inactive_screenshots,
                      !.file_attachments = review_request.file_attachments,
                      !.inactive_file_attachments =
                            review_request.inactive_file_attachments]
    IN IF draft_is_new
       THEN [draft |-> saved(copied), draft_is_new |-> TRUE,
             rows |-> (r :> saved(copied)) @@ rows,
             media |->
                [screenshots |-> reset_draft_captions(media.screenshots,
                    review_request.screenshots
                        \cup review_request.inactive_screenshots),
                 file_attachments |->
                    reset_draft_captions(media.file_attachments,
                        review_request.file_attachments
                            \cup review_request.inactive_file_attachments)]]
       ELSE [draft |-> withdesc, draft_is_new |-> FALSE, rows |-> rows,
             media |-> media]

update_field_unrecorded(s, b, name, record_changes) ==
    [s EXCEPT !.review_request[name] = b[name]]

\* update_field of ReviewRequestDraft.publish: s holds the live instance a
\* (s.review_request) and the draft's changedesc (s.changedesc), b is the draft.
update_field(s, b, name, record_changes) ==
    LET value == b[name]
        old_value == s.review_request[name]
    IN IF old_value # value
       THEN [review_request |-> [s.review_request EXCEPT ![name] = value],
             changedesc |->
                IF record_changes /\ s.changedesc # <<>>
                THEN <<record_field_change(s.changedesc[1], name,
                                           old_value, value)>>
                ELSE s.changedesc]
       ELSE s

update_list_kept(s, b, field, name, record_changes) == s

\* update_list of ReviewRequestDraft.publish, on the id sets of the
\* relation field, recorded under name.
update_list(s, b, field, name, record_changes) ==
    LET aset == s.review_request[field]
        bset == b[field]
    IN IF (aset \ bset) \cup (bset \ aset) # {}
       THEN [review_request |-> [s.review_request EXCEPT ![field] = bset],
             changedesc |->
                IF record_changes /\ s.changedesc # <<>>
                THEN <<record_field_change(s.changedesc[1], name, aset, bset)>>
                ELSE s.changedesc]
       ELSE s

\* The bug numbers of ReviewRequestDraft.publish: compared as sets, recorded
\* as the sorted lists.
update_bugs(s, b) ==
    LET old_bugs == get_bug_list(s.review_request.bugs_closed)
        new_bugs == get_bug_list(b.bugs_closed)
    IN IF set(old_bugs) # set(new_bugs)
       THEN LET u == update_field(s, b, "bugs_closed", FALSE)
            IN [u EXCEPT !.changedesc =
                    IF @ # <<>>
                    THEN <<record_field_change(@[1], "bugs_closed",
                                               old_bugs, new_bugs)>>
                    ELSE @]
       ELSE s

\* fields_changed[name] = value, on the draft's changedesc if it has one
\* and if value (a map of changes) is not empty.
set_field_changed(changedesc, name, value) ==
    IF value # <<>> /\ changedesc # <<>>
    THEN <<[changedesc[1] EXCEPT !.fields_changed = (name :> value) @@ @]>>
    ELSE changedesc

\* The captions of ReviewRequestDraft.publish, for the Screenshot or
\* FileAttachment rows: those of the live request that the draft keeps and
\* whose caption differs from the draft caption.
caption_changed(rows, live, kept) ==
    {id \in live \cap kept : rows[id].caption # rows[id].draft_caption}

caption_changes(rows, live, kept) ==
    [id \in caption_changed(rows, live, kept) |->
        [old |-> <<rows[id].caption>>, new |-> <<rows[id].draft_caption>>]]

update_captions(rows, live, kept) ==
    [id \in DOMAIN rows |->
        IF id \in caption_changed(rows, live, kept)
        THEN [rows[id] EXCEPT !.caption = rows[id].draft_caption]
        ELSE rows[id]]

\* The end of ReviewRequestDraft.publish: the draft's changedesc, if any, is
\* stamped and made public ...
stamp_public(changedesc, t) ==
    IF changedesc # <<>>
    THEN <<[changedesc[1] EXCEPT !.timestamp = t, !.public = TRUE]>>
    ELSE <<>>

add_changedesc_dropped(review_request, changedesc) == review_request

add_changedesc_over_last(review_request, changedesc) ==
    [review_request EXCEPT !.changedescs =
        IF changedesc = <<>> \/ @ = <<>>
        THEN @ \o changedesc
        ELSE [@ EXCEPT ![Len(@)] = changedesc[1]]]

\* ... and added to the live request's history.
add_changedesc(review_request, changedesc) ==
    [review_request EXCEPT !.changedescs = @ \o changedesc]

\* ReviewRequestDraft.publish(review_request, send_notification=False) at
\* time t: the live instance as saved by review_request.save() and the
\* ChangeDescription returned (<<>> for None).
draft_publish(self, review_request, t) ==
    LET s0 == [review_request |-> review_request,
               changedesc |-> IF self.changedesc = <<>> /\ review_request.public
                              THEN <<ChangeDescription(FALSE, "", t)>>
                              ELSE self.changedesc]
        s1 == update_field(s0, self, "summary", TRUE)
        s2 == update_field(s1, self, "description", TRUE)
        s3 == update_field(s2, self, "testing_done", TRUE)
        s4 == update_field(s3, self, "branch", TRUE)
        s5 == update_list(s4, self, "target_groups", "target_groups", TRUE)
        s6 == update_list(s5, self, "target_people", "target_people", TRUE)
        s7 == update_bugs(s6, self)
        s8 == [s7 EXCEPT !.changedesc =
                set_field_changed(@, "screenshot_captions",
                    caption_changes(media.screenshots,
                        review_request.screenshots, self.screenshots))]
        s9 == update_list(s8, self, "screenshots", "screenshots", TRUE)
        s10 == [s9 EXCEPT !.review_request.inactive_screenshots =
                    self.inactive_screenshots]
        s11 == [s10 EXCEPT !.changedesc =
                set_field_changed(@, "file_captions",
                    caption_changes(media.file_attachments,
                        review_request.file_attachments,
                        self.file_attachments))]
        s12 == update_list(s11, self, "file_attachments", "files", TRUE)
        s13 == [s12 EXCEPT !.review_request.inactive_file_attachments =
                    self.inactive_file_attachments]
        s14 == IF self.diffset # None
               THEN [review_request |->
                        [s13.review_request EXCEPT
                            !.diffset_history = @ \cup {self.diffset}],
                     changedesc |->
                        set_field_changed(s13.changedesc, "diff",
                            [added |-> <<self.diffset>>])]
               ELSE s13
        changedesc == stamp_public(s14.changedesc, t)
        live == add_changedesc(s14.review_request, changedesc)
    IN [review_request |-> saved(live), changedesc |-> changedesc,
        media |->
            [screenshots |-> update_captions(media.screenshots,
                review_request.screenshots, self.screenshots),
             file_attachments |-> update_captions(media.file_attachments,
                review_request.file_attachments, self.file_attachments)]]

sends_always(send_notification) == TRUE

\* if send_notification: the test before ReviewRequestDraft.publish sends.
sends(send_notification) == send_notification

\* The signals ReviewRequestDraft.publish sends for review request r: the
\* published signal with the draft's ChangeDescription, unless the caller
\* passed send_notification=False.
draft_publish_signals(send_notification, r, changedesc) ==
    IF sends(send_notification)
    THEN <<Signal("review_request_published", r, None, changedesc)>>
    ELSE <<>>

\* A first edit: ReviewRequestDraft.create(review_request) as called by the
\* editing views.
DraftCreate(r) ==
    /\ r \in DOMAIN review_requests
    /\ UNCHANGED world
    /\ LET made == draft_create(review_requests[r], r, drafts, now + 1)
           stamped == made.draft_is_new /\ made.draft.changedesc # <<>>
       IN /\ stamped => now < MaxClock
          /\ drafts' = made.rows
          /\ media' = made.media
          /\ now' = IF stamped THEN now + 1 ELSE now
    /\ last' = Call("draft_create", r, None, <<>>)
    /\ trip' = round_trip("draft_create", r, None, FALSE, 0)
    /\ UNCHANGED <<review_requests, incoming_request_count, site_profiles,
                   next_id>>

\* An edit of the draft's fields followed by ReviewRequestDraft.save().
DraftEdit(r, summary, target_groups, target_people) ==
    /\ r \in DOMAIN drafts
    /\ UNCHANGED world
    /\ drafts' = [drafts EXCEPT ![r] =
            saved([@ EXCEPT !.summary = summary,
                            !.target_groups = target_groups,
                            !.target_people = target_people])]
    /\ last' = Call("draft_edit", r, None, <<>>)
    /\ trip' = round_trip("draft_edit", r, None, FALSE, 0)
    /\ UNCHANGED <<review_requests, incoming_request_count, site_profiles,
                   next_id, now, media>>

\* ------------------------------------------------------------- lifecycle

\* Rows without the row of key r (Model.delete()).
without(rows, r) == [k \in DOMAIN rows \ {r} |-> rows[k]]

keep_draft(rows, r) == rows

\* draft.delete() on the draft of review request r, if it has one.
delete_draft(rows, r) == without(rows, r)

make_public_pending(self) ==
    [self EXCEPT !.public = TRUE, !.status = PENDING_REVIEW]

\* self.public = True, at the end of ReviewRequest.publish.
make_public(self) == [self EXCEPT !.public = TRUE]

close_changedesc_swapped(self, type, text, t) ==
    record_field_change(ChangeDescription(TRUE, text, t),
                        "status", type, self.status)

\* The ChangeDescription ReviewRequest.close records for a status change.
close_changedesc(self, type, text, t) ==
    record_field_change(ChangeDescription(TRUE, text, t),
                        "status", self.status, type)

reopen_changedesc_swapped(self, t) ==
    record_field_change(ChangeDescription(FALSE, "", t),
                        "status", PENDING_REVIEW, self.status)

\* The ChangeDescription ReviewRequest.reopen records.
reopen_changedesc(self, t) ==
    record_field_change(ChangeDescription(FALSE, "", t),
                        "status", self.status, PENDING_REVIEW)

reopen_instance_stays_public(self, changedesc) ==
    IF self.status = DISCARDED
    THEN self
    ELSE [self EXCEPT !.changedescs =
            Append(@, [changedesc EXCEPT !.public = TRUE])]

\* The two branches of ReviewRequest.reopen on the instance: a discarded
\* request becomes non-public (its changedesc goes to the draft), any other
\* gets the changedesc, made public, in its history.
reopen_instance(self, changedesc) ==
    IF self.status = DISCARDED
    THEN [self EXCEPT !.public = FALSE]
    ELSE [self EXCEPT !.changedescs =
            Append(@, [changedesc EXCEPT !.public = TRUE])]

\* ReviewRequest.publish(user).
Publish(r, user) ==
    /\ r \in DOMAIN review_requests
    /\ UNCHANGED world
    /\ LET self == review_requests[r]
           has_draft == r \in DOMAIN drafts
       IN IF ~is_mutable_by(self, user)
          THEN /\ last' = Call("publish", r, "PermissionError", <<>>)
               /\ trip' = round_trip("publish", r, "PermissionError", FALSE, 0)
               /\ UNCHANGED <<db, next_id, now>>
          ELSE LET t == now + 1
                   c1 == IF self.public
                         THEN add_incoming(Counts, self.target_groups,
                                           self.target_people, -1)
                         ELSE Counts
                   pub == IF has_draft
                          THEN draft_publish(drafts[r], self, t)
                          ELSE [review_request |-> self, changedesc |-> <<>>,
                                media |-> media]
                   \* the row _update_counts reads back: as saved by the
                   \* draft's publish, or untouched
                   row == pub.review_request
                   self2 == make_public(pub.review_request)
                   c2 == update_counts(self2, FALSE, row.status, row.public, c1)
               IN /\ pub.changedesc # <<>> => now < MaxClock
                  /\ InRange(c2)
                  /\ review_requests' =
                        [review_requests EXCEPT ![r] = saved(self2)]
                  /\ drafts' = delete_draft(drafts, r)
                  /\ media' = pub.media
                  /\ incoming_request_count' = c2.groups
                  /\ site_profiles' = c2.profiles
                  /\ now' = IF pub.changedesc # <<>> THEN t ELSE now
                  /\ last' = Call("publish", r, None,
                        (IF has_draft
                         THEN draft_publish_signals(FALSE, r, pub.changedesc)
                         ELSE <<>>)
                        \o <<Signal("review_request_published", r, None,
                                    pub.changedesc)>>)
                  /\ trip' = round_trip("publish", r, None, FALSE, 0)
                  /\ UNCHANGED next_id

may_change_status_both(self, user) ==
    \/ user = None
    \/ /\ is_mutable_by(self, user)
       /\ has_perm(user, "reviews.can_change_status")

\* The permission check shared by close and reopen.
may_change_status(self, user) ==
    \/ user = None
    \/ is_mutable_by(self, user)
    \/ has_perm(user, "reviews.can_change_status")

is_close_type_or_pending(type) ==
    type \in {SUBMITTED, DISCARDED, PENDING_REVIEW}

\* type in [self.SUBMITTED, self.DISCARDED], the types close accepts.
is_close_type(type) == type \in {SUBMITTED, DISCARDED}

\* ReviewRequest.close(type, user, description).
Close(r, type, user, description) ==
    /\ r \in DOMAIN review_requests
    /\ UNCHANGED world
    /\ LET self == review_requests[r]
           text == IF description = None THEN "" ELSE description
           t == now + 1
       IN IF ~may_change_status(self, user)
          THEN /\ last' = Call("close", r, "PermissionError", <<>>)
               /\ trip' = round_trip("close", r, "PermissionError", FALSE, 0)
               /\ UNCHANGED <<db, next_id, now>>
          ELSE IF ~is_close_type(type)
          THEN /\ last' = Call("close", r, "AttributeError", <<>>)
               /\ trip' = round_trip("close", r, "AttributeError", FALSE, 0)
               /\ UNCHANGED <<db, next_id, now>>
          ELSE IF self.status # type
          THEN LET changedesc == close_changedesc(self, type, text, t)
                   self2 == [self EXCEPT !.changedescs = Append(@, changedesc),
                                         !.status = type]
                   c == update_counts(self2, FALSE, self.status, self.public,
                                      Counts)
               IN /\ now < MaxClock
                  /\ InRange(c)
                  /\ review_requests' =
                        [review_requests EXCEPT ![r] = saved(self2)]
                  /\ incoming_request_count' = c.groups
                  /\ site_profiles' = c.profiles
                  /\ drafts' = delete_draft(drafts, r)
                  /\ now' = t
                  /\ last' = Call("close", r, None,
                        <<Signal("review_request_closed", r, type, <<>>)>>)
                  /\ trip' = round_trip("close", r, None,
                        type = DISCARDED /\ self.public
                            /\ self.status = PENDING_REVIEW,
                        Len(self.changedescs))
                  /\ UNCHANGED <<next_id, media>>
          ELSE LET i == latest_public(self.changedescs)
               IN IF i = 0
                  THEN /\ last' = Call("close", r, "DoesNotExist", <<>>)
                       /\ trip' = round_trip("close", r, "DoesNotExist", FALSE, 0)
                       /\ UNCHANGED <<db, next_id, now>>
                  ELSE /\ now < MaxClock
                       /\ review_requests' = [review_requests EXCEPT ![r] =
                            saved([self EXCEPT
                                     !.changedescs[i].timestamp = t,
                                     !.changedescs[i].text = text])]
                       /\ drafts' = delete_draft(drafts, r)
                       /\ now' = t
                       /\ last' = Call("close", r, None, <<>>)
                       /\ trip' = round_trip("close", r, None, FALSE, 0)
                       /\ UNCHANGED <<incoming_request_count, site_profiles,
                                      next_id, media>>

reopen_needed_always(self) == TRUE

\* self.status != self.PENDING_REVIEW: reopen has a status to change.
reopen_needed(self) == self.status # PENDING_REVIEW

\* ReviewRequest.reopen(user).
Reopen(r, user) ==
    /\ r \in DOMAIN review_requests
    /\ UNCHANGED world
    /\ LET self == review_requests[r]
           t == now + 1
           reopened == <<Signal("review_request_reopened", r, None, <<>>)>>
       IN IF ~may_change_status(self, user)
          THEN /\ last' = Call("reopen", r, "PermissionError", <<>>)
               /\ trip' = round_trip("reopen", r, "PermissionError", FALSE, 0)
               /\ UNCHANGED <<db, next_id, now>>
          ELSE IF reopen_needed(self)
          THEN LET changedesc == reopen_changedesc(self, t)
                   discarded == self.status = DISCARDED
                   self1 == reopen_instance(self, changedesc)
                   made == draft_create(self1, r, drafts, t)
                   self2 == [self1 EXCEPT !.status = PENDING_REVIEW]
                   c == update_counts(self2, FALSE, self.status, self.public,
                                      Counts)
               IN /\ now < MaxClock
                  /\ InRange(c)
                  /\ drafts' =
                        IF discarded
                        THEN (r :> saved([made.draft EXCEPT
                                            !.changedesc = <<changedesc>>]))
                             @@ made.rows
                        ELSE drafts
                  /\ media' = IF discarded THEN made.media ELSE media
                  /\ review_requests' =
                        [review_requests EXCEPT ![r] = saved(self2)]
                  /\ incoming_request_count' = c.groups
                  /\ site_profiles' = c.profiles
                  /\ now' = t
                  /\ last' = Call("reopen", r, None, reopened)
                  /\ trip' = round_trip("reopen", r, None, FALSE, 0)
                  /\ UNCHANGED next_id
          ELSE /\ last' = Call("reopen", r, None, reopened)
               /\ trip' = round_trip("reopen", r, None, FALSE, 0)
               /\ UNCHANGED <<db, next_id, now>>

\* ReviewRequest.delete().
Delete(r) ==
    /\ r \in DOMAIN review_requests
    /\ UNCHANGED world
    /\ LET self == review_requests[r]
           c1 == add_profile(Counts, self.submitter,
                             "total_outgoing_request_count", -1)
           c2 == IF self.status = PENDING_REVIEW
                 THEN add_profile(c1, self.submitter,
                                  "pending_outgoing_request_count", -1)
                 ELSE c1
           c3 == IF self.public
                 THEN add_incoming(c2, self.target_groups, self.target_people,
                                   -1)
                 ELSE c2
       IN /\ InRange(c3)
          /\ incoming_request_count' = c3.groups
          /\ site_profiles' = c3.profiles
    /\ review_requests' = without(review_requests, r)
    /\ drafts' = without(drafts, r)
    /\ last' = Call("delete", r, None, <<>>)
    /\ trip' = round_trip("delete", r, None, FALSE, 0)
    /\ UNCHANGED <<next_id, now, media>>

Next ==
    \/ \E user \in Submitters : Create(user)
    \/ \E r \in ReviewRequestIds : DraftCreate(r)
    \/ \E r \in ReviewRequestIds, summary \in Summaries,
          target_groups \in SUBSET Groups, target_people \in SUBSET TargetPeople :
            DraftEdit(r, summary, target_groups, target_people)
    \/ \E r \in ReviewRequestIds, user \in Users : Publish(r, user)
    \/ \E r \in ReviewRequestIds, type \in CloseTypes, user \in Users \cup {None},
          description \in Descriptions :
            Close(r, type, user, description)
    \/ \E r \in ReviewRequestIds, user \in Users \cup {None} : Reopen(r, user)
    \/ \E r \in ReviewRequestIds : Delete(r)

Spec == Init /\ [][Next]_vars

\* ----------------------------------------------------- calls that fail

\* The statements of publish, close and reopen at which the database or a
\* receiver of the signal raises: draft.publish(...) before it has written,
\* draft.delete(), the super().save() that ends ReviewRequest.save, and the
\* send of the signal.
PublishSteps == {"draft", "delete", "save", "send"}
StatusSteps == {"save", "send"}

\* What a receiver raises and what the database raises.
raised_at(step) == IF step = "send" THEN "Exception" ELSE "DatabaseError"

NoTrip == [stage |-> 0, r |-> 0, base |-> 0]

\* ReviewRequest.publish(user) by a user allowed to, stopped by an exception
\* at `step`: what was written before it stays written.
PublishFails(r, user, step) ==
    /\ r \in DOMAIN review_requests
    /\ is_mutable_by(review_requests[r], user)
    /\ step \in {"draft", "delete"} => r \in DOMAIN drafts
    /\ UNCHANGED world
    /\ LET self == review_requests[r]
           t == now + 1
           c1 == IF self.public
                 THEN add_incoming(Counts, self.target_groups,
                                   self.target_people, -1)
                 ELSE Counts
       IN \E pub \in {IF r \in DOMAIN drafts
                      THEN draft_publish(drafts[r], self, t)
                      ELSE [review_request |-> self, changedesc |-> <<>>,
                            media |-> media]} :
          LET row == pub.review_request
              self2 == make_public(pub.review_request)
          IN \E c \in {IF step \in {"draft", "delete"} THEN c1
                       ELSE update_counts(self2, FALSE, row.status,
                                          row.public, c1)} :
             /\ step # "draft" /\ pub.changedesc # <<>> => now < MaxClock
             /\ InRange(c)
             /\ incoming_request_count' = c.groups
             /\ site_profiles' = c.profiles
             /\ review_requests' =
                   CASE step = "draft" -> review_requests
                     [] step \in {"delete", "save"} ->
                           [review_requests EXCEPT ![r] = row]
                     [] step = "send" ->
                           [review_requests EXCEPT ![r] = saved(self2)]
             /\ drafts' = IF step \in {"draft", "delete"} THEN drafts
                          ELSE delete_draft(drafts, r)
             /\ media' = IF step = "draft" THEN media ELSE pub.media
             /\ now' = IF step # "draft" /\ pub.changedesc # <<>>
                       THEN t ELSE now
    /\ last' = Call("publish", r, raised_at(step), <<>>)
    /\ trip' = NoTrip
    /\ UNCHANGED next_id

\* ReviewRequest.close(type, user, description) with a valid type by a user
\* allowed to, stopped by an exception at `step`.  The ChangeDescription is
\* saved and added to changedescs before self.save(); the draft is deleted
\* after the signal is sent.
CloseFails(r, type, user, description, step) ==
    /\ r \in DOMAIN review_requests
    /\ ~ ~may_change_status(review_requests[r], user)
    /\ is_close_type(type)
    /\ UNCHANGED world
    /\ LET self == review_requests[r]
           text == IF description = None THEN "" ELSE description
           t == now + 1
       IN IF self.status # type
          THEN LET changedesc == close_changedesc(self, type, text, t)
                   self1 == [self EXCEPT !.changedescs = Append(@, changedesc)]
                   self2 == [self1 EXCEPT !.status = type]
                   c == update_counts(self2, FALSE, self.status, self.public,
                                      Counts)
               IN /\ now < MaxClock
                  /\ InRange(c)
                  /\ review_requests' = [review_requests EXCEPT ![r] =
                        IF step = "save" THEN self1 ELSE saved(self2)]
                  /\ incoming_request_count' = c.groups
                  /\ site_profiles' = c.profiles
                  /\ now' = t
          ELSE LET i == latest_public(self.changedescs)
               IN /\ step = "save"
                  /\ i # 0
                  /\ now < MaxClock
                  /\ review_requests' = [review_requests EXCEPT ![r] =
                        [self EXCEPT !.changedescs[i].timestamp = t,
                                     !.changedescs[i].text = text]]
                  /\ now' = t
                  /\ UNCHANGED <<incoming_request_count, site_profiles>>
    /\ last' = Call("close", r, raised_at(step), <<>>)
    /\ trip' = NoTrip
    /\ UNCHANGED <<drafts, media, next_id>>

\* ReviewRequest.reopen(user) by a user allowed to, stopped by an exception
\* at `step`.  The ChangeDescription and, for a discarded request, the draft
\* are written before self.save().
ReopenFails(r, user, step) ==
    /\ r \in DOMAIN review_requests
    /\ ~ ~may_change_status(review_requests[r], user)
    /\ UNCHANGED world
    /\ LET self == review_requests[r]
           t == now + 1
       IN IF reopen_needed(self)
          THEN LET changedesc == reopen_changedesc(self, t)
                   discarded == self.status = DISCARDED
                   self1 == reopen_instance(self, changedesc)
                   made == draft_create(self1, r, drafts, t)
                   self2 == [self1 EXCEPT !.status = PENDING_REVIEW]
                   c == update_counts(self2, FALSE, self.status, self.public,
                                      Counts)
               IN /\ now < MaxClock
                  /\ InRange(c)
                  /\ drafts' =
                        IF discarded
                        THEN (r :> saved([made.draft EXCEPT
                                            !.changedesc = <<changedesc>>]))
                             @@ made.rows
                        ELSE drafts
                  /\ media' = IF discarded THEN made.media ELSE media
                  /\ review_requests' = [review_requests EXCEPT ![r] =
                        IF step = "save"
                        THEN [self EXCEPT !.changedescs = self1.changedescs]
                        ELSE saved(self2)]
                  /\ incoming_request_count' = c.groups
                  /\ site_profiles' = c.profiles
                  /\ now' = t
          ELSE /\ step = "send"
               /\ UNCHANGED <<db, now>>
    /\ last' = Call("reopen", r, raised_at(step), <<>>)
    /\ trip' = NoTrip
    /\ UNCHANGED next_id

\* A call has been stopped by an exception of the database or of a receiver.
Failed == last.raised \in {"DatabaseError", "Exception"}

\* The lifecycle up to and including the first call that is stopped.
FaultNext ==
    \/ ~Failed /\ Next
    \/ /\ ~Failed
       /\ \E r \in ReviewRequestIds, user \in Users, step \in PublishSteps :
            PublishFails(r, user, step)
    \/ /\ ~Failed
       /\ \E r \in ReviewRequestIds, type \in CloseTypes,
             user \in Users \cup {None}, description \in Descriptions,
             step \in StatusSteps :
            CloseFails(r, type, user, description, step)
    \/ /\ ~Failed
       /\ \E r \in ReviewRequestIds, user \in Users \cup {None},
             step \in StatusSteps :
            ReopenFails(r, user, step)

FaultSpec == Init /\ [][FaultNext]_vars

\* --------------------------------------------------------- access control

\* The repository and the site of the access questions, with the users the
\* site and the repository admit (LocalSite.is_accessible_by and
\* Repository.is_accessible_by, which other modules define).
Repositories == {"repo"}
LocalSites == {"site"}
RepositoryUsers == [repo |-> {"alice", "bob", "root"}]
LocalSiteUsers == [site |-> {"bob", "carol", "root"}]

Repository_is_accessible_by(repository, user) ==
    user \in RepositoryUsers[repository]

LocalSite_is_accessible_by(local_site, user) ==
    user \in LocalSiteUsers[local_site]

Group_is_accessible_by_open_only(self, user) ==
    ~self.invite_only \/ is_superuser(user)

\* Group.is_accessible_by(user), on the row self.
Group_is_accessible_by(self, user) ==
    IF self.local_site # None
        /\ ~LocalSite_is_accessible_by(self.local_site, user)
    THEN FALSE
    ELSE \/ ~self.invite_only
         \/ is_superuser(user)
         \/ (is_authenticated(user) /\ user \in self.users)

\* Group.objects.accessible(user): the groups the user can access.
accessible(user) ==
    {g \in DOMAIN group_rows : Group_is_accessible_by(group_rows[g], user)}

\* ReviewRequest.is_accessible_by(user, local_site).
is_accessible_by(self, user, local_site) ==
    IF ~self.public /\ ~is_mutable_by(self, user)
    THEN FALSE
    ELSE IF self.repository # None
            /\ ~Repository_is_accessible_by(self.repository, user)
    THEN FALSE
    ELSE IF local_site # None /\ ~LocalSite_is_accessible_by(local_site, user)
    THEN FALSE
    ELSE IF is_authenticated(user) /\ user \in self.target_people
    THEN TRUE
    ELSE IF self.target_groups = {}
    THEN TRUE
    ELSE IF \E g \in self.target_groups :
                Group_is_accessible_by(group_rows[g], user)
    THEN TRUE
    ELSE IF \E g \in accessible(self.submitter) :
                Group_is_accessible_by(group_rows[g], user)
    THEN TRUE
    ELSE self.submitter = user

Review_is_accessible_by_submitter_first(self, user) ==
    IF review_requests[self.review_request].submitter = user
    THEN TRUE
    ELSE IF \E g \in accessible(user) : ~group_rows[g].ready_for_reviews
    THEN FALSE
    ELSE \E g \in accessible(self.user) :
            Group_is_accessible_by(group_rows[g], user)

\* Review.is_accessible_by(user), for the review self written by self.user
\* on the review request of key self.review_request.
Review_is_accessible_by(self, user) ==
    IF \E g \in accessible(user) : ~group_rows[g].ready_for_reviews
    THEN FALSE
    ELSE IF review_requests[self.review_request].submitter = user
    THEN TRUE
    ELSE \E g \in accessible(self.user) :
            Group_is_accessible_by(group_rows[g], user)

\* The groups, their possible members, the target people and the authors of
\* reviews of the access questions.
AccessGroups == {"g1", "g2"}
Members == {"bob", "carol"}
AccessTargetPeople == {"bob"}
Authors == {"alice", "bob"}

\* The review request of key 1 submitted by carol, as the lifecycle leaves
\* it: created and never published when it is non-public without targets,
\* published when it is public, and published, discarded and reopened when
\* it is non-public with targets; with the draft and the counters of that
\* history.
AccessInit ==
    /\ Quiet
    /\ group_rows \in [AccessGroups ->
            [users : SUBSET Members, invite_only : BOOLEAN,
             ready_for_reviews : BOOLEAN, local_site : {None}]]
    /\ \E public \in BOOLEAN, repository \in Repositories \cup {None},
          target_groups \in SUBSET AccessGroups,
          target_people \in SUBSET AccessTargetPeople :
        LET created == [ReviewRequest("carol", repository)
                            EXCEPT !.summary = "fix"]
            published == [created EXCEPT !.public = TRUE,
                                         !.target_groups = target_groups,
                                         !.target_people = target_people]
            discarded == [published EXCEPT
                            !.status = DISCARDED,
                            !.changedescs = <<close_changedesc(
                                published, DISCARDED, "", 1)>>]
            reopened == [discarded EXCEPT !.status = PENDING_REVIEW,
                                          !.public = FALSE]
            untargeted == target_groups = {} /\ target_people = {}
            zero == [groups |-> [g \in AccessGroups |-> 0],
                     profiles |-> [u \in Users |->
                        [pending_outgoing_request_count |-> 0,
                         total_outgoing_request_count |-> 0,
                         direct_incoming_request_count |-> 0,
                         total_incoming_request_count |-> 0]]]
            c1 == add_profile(
                    add_profile(zero, "carol",
                                "total_outgoing_request_count", 1),
                    "carol", "pending_outgoing_request_count", 1)
            c2 == IF public
                  THEN add_incoming(c1, target_groups, target_people, 1)
                  ELSE c1
        IN /\ ~public /\ untargeted
                => /\ review_requests = (1 :> created)
                   /\ drafts = <<>>
                   /\ now = 0
           /\ public
                => /\ review_requests = (1 :> published)
                   /\ drafts = <<>>
                   /\ now = 0
           /\ ~public /\ ~untargeted
                => /\ review_requests = (1 :> reopened)
                   /\ drafts = (1 :>
                        [ReviewRequestDraft(reopened) EXCEPT
                            !.changedesc =
                                <<reopen_changedesc(discarded, 2)>>,
                            !.target_groups = target_groups,
                            !.target_people = target_people])
                   /\ now = 2
           /\ incoming_request_count = c2.groups
           /\ site_profiles = c2.profiles
    /\ next_id = 2
    /\ last = Call("init", 0, None, <<>>)
    /\ trip = [stage |-> 0, r |-> 0, base |-> 0]
    /\ answer = NoAnswer
    /\ media = NoMedia

\* An access question asked and the answer returned.
Answer(op, r, user, other, result) ==
    [op |-> op, r |-> r, user |-> user, other |-> other, result |-> result]

\* review_request.is_accessible_by(user, local_site) is asked.
IsAccessibleBy(r, user, local_site) ==
    /\ r \in DOMAIN review_requests
    /\ answer' = Answer("is_accessible_by", r, user, local_site,
                        is_accessible_by(review_requests[r], user, local_site))
    /\ UNCHANGED <<db, next_id, now, last, trip, group_rows, aside>>

\* review_request.is_mutable_by(user) is asked.
IsMutableBy(r, user) ==
    /\ r \in DOMAIN review_requests
    /\ answer' = Answer("is_mutable_by", r, user, None,
                        is_mutable_by(review_requests[r], user))
    /\ UNCHANGED <<db, next_id, now, last, trip, group_rows, aside>>

\* review.is_accessible_by(user) is asked, of a review written by author on
\* the review request r.
ReviewIsAccessibleBy(r, author, user) ==
    /\ r \in DOMAIN review_requests
    /\ answer' = Answer("review.is_accessible_by", r, user, author,
                        Review_is_accessible_by(
                            [review_request |-> r, user |-> author], user))
    /\ UNCHANGED <<db, next_id, now, last, trip, group_rows, aside>>

\* group.users.add(user).
AddGroupUser(g, user) ==
    /\ user \notin group_rows[g].users
    /\ group_rows' = [group_rows EXCEPT ![g].users = @ \cup {user}]
    /\ answer' = Answer("users.add", 0, user, g, TRUE)
    /\ UNCHANGED <<db, next_id, now, last, trip, aside>>

AccessNext ==
    \/ \E r \in ReviewRequestIds, user \in Viewers,
          local_site \in LocalSites \cup {None} :
            IsAccessibleBy(r, user, local_site)
    \/ \E r \in ReviewRequestIds, user \in Viewers : IsMutableBy(r, user)
    \/ \E r \in ReviewRequestIds, author \in Authors, user \in Viewers :
            ReviewIsAccessibleBy(r, author, user)
    \/ \E g \in AccessGroups, user \in Members : AddGroupUser(g, user)

AccessSpec == AccessInit /\ [][AccessNext]_vars

\* ------------------------------------------------- publishing a draft

\* What a draft's fields are edited to.
DraftSummaries == {"fix", "fix it"}
DraftDescriptions == {"why", "how"}
DraftTestingDone == {"", "ran it"}
DraftBranches == {"", "trunk"}
DraftBugs == {"2,1", "1, 2", "3"}
DraftCaptions == {"before", "after"}
\* The Screenshot, the FileAttachment and the DiffSet there are.
MediaIds == {1}
DiffSets == {"r1"}

\* The states a review request of carol with a draft is published from: the
\* request created and never published ("created": all live fields at their
\* defaults, the draft without a ChangeDescription), or published before
\* ("published": the draft made since carries a fresh ChangeDescription), or
\* published, discarded and reopened ("reopened": non-public, the draft
\* carries the ChangeDescription of the reopening); the draft edited to any
\* of the values above, a screenshot or file attachment of the request that
\* the draft has removed being among the draft's inactive ones.
PublishInit ==
    /\ Quiet
    /\ group_rows = [g \in Groups |-> Group(GroupUsers[g])]
    /\ answer = NoAnswer
    /\ next_id = 2
    /\ last = Call("init", 0, None, <<>>)
    /\ trip = [stage |-> 0, r |-> 0, base |-> 0]
    /\ \E shape \in {"created", "published", "reopened"},
          summary \in DraftSummaries, description \in DraftDescriptions,
          testing_done \in DraftTestingDone, branch \in DraftBranches,
          bugs_closed \in DraftBugs, draft_caption \in DraftCaptions,
          target_groups \in SUBSET Groups,
          target_people \in SUBSET AccessTargetPeople,
          screenshots \in SUBSET MediaIds,
          file_attachments \in SUBSET MediaIds,
          diffset \in DiffSets \cup {None} :
        LET created == ReviewRequest("carol", None)
            published == [created EXCEPT
                            !.public = TRUE, !.summary = "fix",
                            !.description = "why", !.bugs_closed = "2,1",
                            !.target_groups = {"g1"},
                            !.screenshots = {1}]
            discarded == [published EXCEPT
                            !.status = DISCARDED,
                            !.changedescs = <<close_changedesc(
                                published, DISCARDED, "", 1)>>]
            reopened == [discarded EXCEPT !.status = PENDING_REVIEW,
                                          !.public = FALSE]
            self == CASE shape = "created" -> created
                      [] shape = "published" -> published
                      [] shape = "reopened" -> reopened
            changedesc ==
                CASE shape = "created" -> <<>>
                  [] shape = "published" -> <<ChangeDescription(FALSE, "", 1)>>
                  [] shape = "reopened" -> <<reopen_changedesc(discarded, 2)>>
            zero == [groups |-> [g \in Groups |-> 0],
                     profiles |-> [u \in Users |->
                        [pending_outgoing_request_count |-> 0,
                         total_outgoing_request_count |-> 0,
                         direct_incoming_request_count |-> 0,
                         total_incoming_request_count |-> 0]]]
            c1 == add_profile(
                    add_profile(zero, "carol",
                                "total_outgoing_request_count", 1),
                    "carol", "pending_outgoing_request_count", 1)
            c2 == IF self.public
                  THEN add_incoming(c1, self.target_groups,
                                    self.target_people, 1)
                  ELSE c1
        IN /\ review_requests = (1 :> self)
           /\ drafts = (1 :> saved(
                [ReviewRequestDraft(self) EXCEPT
                    !.summary = summary, !.description = description,
                    !.testing_done = testing_done, !.branch = branch,
                    !.bugs_closed = bugs_closed, !.changedesc = changedesc,
                    !.diffset = diffset,
                    !.target_groups = target_groups,
                    !.target_people = target_people,
                    !.screenshots = screenshots,
                    !.inactive_screenshots = self.screenshots \ screenshots,
                    !.file_attachments = file_attachments,
                    !.inactive_file_attachments =
                        self.file_attachments \ file_attachments]))
           /\ media =
                [screenshots |-> (1 :> [caption |-> "before",
                                       draft_caption |-> draft_caption]),
                 file_attachments |-> (1 :> [caption |-> "log",
                                            draft_caption |-> "log"])]
           /\ incoming_request_count = c2.groups
           /\ site_profiles = c2.profiles
           /\ now = CASE shape = "created" -> 0
                       [] shape = "published" -> 1
                       [] shape = "reopened" -> 2

PublishNext ==
    \E r \in ReviewRequestIds, user \in Users : Publish(r, user)

PublishSpec == PublishInit /\ [][PublishNext]_vars

\* ------------------------------------------------ the draft published

save_counts_always(asked, new) == TRUE

\* ReviewRequest.save(update_counts): whether _update_counts runs, which it
\* does when the caller asks for it or the instance has no id yet.
save_counts(asked, new) == asked \/ new

\* review_request.changedescs.add(changedesc) for a ChangeDescription that
\* may be in the history already: `old` is the draft's ChangeDescription as
\* the history holds it, `new` the same row as just stamped.  A row that is
\* in the relation is not added a second time.
changedescs_add(changedescs, old, new) ==
    IF old # <<>> /\ \E i \in 1..Len(changedescs) : changedescs[i] = old[1]
    THEN [i \in 1..Len(changedescs) |->
            IF changedescs[i] = old[1] THEN new[1] ELSE changedescs[i]]
    ELSE changedescs \o new

\* draft.publish(): ReviewRequestDraft.publish called on its own, with its
\* defaults (the draft's review request, send_notification=True).  The live
\* request is saved by review_request.save(), without update_counts; the
\* draft stays, its ChangeDescription being the row that is now public; the
\* published signal is sent with it.
DraftPublish(r) ==
    /\ r \in DOMAIN drafts
    /\ UNCHANGED world
    /\ LET self == drafts[r]
           review_request == review_requests[r]
       IN \E pub \in {draft_publish(self, review_request, now + 1)} :
          LET live == [pub.review_request EXCEPT !.changedescs =
                          changedescs_add(review_request.changedescs,
                                          self.changedesc, pub.changedesc)]
              c == IF save_counts(FALSE, FALSE)
                   THEN update_counts(live, FALSE, review_request.status,
                                      review_request.public, Counts)
                   ELSE Counts
          IN /\ pub.changedesc # <<>> => now < MaxClock
             /\ InRange(c)
             /\ review_requests' = [review_requests EXCEPT ![r] = live]
             /\ drafts' = [drafts EXCEPT ![r].changedesc = pub.changedesc]
             /\ media' = pub.media
             /\ incoming_request_count' = c.groups
             /\ site_profiles' = c.profiles
             /\ now' = IF pub.changedesc # <<>> THEN now + 1 ELSE now
             /\ last' = Call("draft_publish", r, None,
                   draft_publish_signals(TRUE, r, pub.changedesc))
    /\ trip' = NoTrip
    /\ UNCHANGED next_id

DraftPublishNext == \E r \in ReviewRequestIds : DraftPublish(r)

\* The drafts of PublishInit, published on their own.
DraftPublishSpec == PublishInit /\ [][DraftPublishNext]_vars

\* ------------------------------------------- summaries and bug numbers

\* How far from MAX_SUMMARY_LENGTH the lengths of the summaries drawn go, and
\* how many bug ids a bug string drawn has at most.
Slack == 3
MaxBugs == 3

\* n times the character "x".
RECURSIVE pad(_)
pad(n) ==
    IF n = 0 THEN ""
    ELSE LET half == pad(n \div 2)
         IN half \o half \o (IF n % 2 = 1 THEN "x" ELSE "")

\* The summaries an instance is given: short ones, and ones about as long
\* as the limit, with no full stop, one, or several around the limit.
SummaryInputs ==
    {pad(head) \o mid \o pad(tail) :
        head \in {0} \cup (MAX_SUMMARY_LENGTH - Slack)..MAX_SUMMARY_LENGTH,
        mid \in {"", ".", "a.", "..", "a. b.", ". ."},
        tail \in 0..Slack}

\* The bug strings an instance is given: up to MaxBugs ids, numeric or not,
\* repeated or not, between separators, with or without separators at the
\* ends.
BugIds == {"1", "2", "10", "a"}
Separators == {",", " ", ", "}
Ends == {"", ",", " "}

RECURSIVE separated(_, _)
separated(n, sep) ==
    IF n = 0 THEN {""}
    ELSE IF n = 1 THEN BugIds
    ELSE {s \o sep \o id : s \in separated(n - 1, sep), id \in BugIds}

BugInputs ==
    {lead \o body \o trail :
        lead \in Ends, trail \in Ends,
        body \in UNION {separated(n, sep) : n \in 0..MaxBugs,
                                            sep \in Separators}}

\* ','.join(bugs).
RECURSIVE join(_)
join(bugs) ==
    IF bugs = <<>> THEN ""
    ELSE IF Len(bugs) = 1 THEN bugs[1]
    ELSE bugs[1] \o "," \o join(Tail(bugs))

\* A review request of carol and its draft, as created, and one caller
\* holding either the request or the draft as loaded, with a new summary or
\* a new bug string assigned (`given`) and not saved yet.
FieldsInit ==
    /\ draft_rows = <<>>
    /\ sequential = <<>>
    /\ default_reviewers = <<>>
    /\ filediffs = <<>>
    /\ reviews = <<>>
    /\ shipit_count = <<>>
    /\ group_rows = [g \in Groups |-> Group(GroupUsers[g])]
    /\ answer = NoAnswer
    /\ media = NoMedia
    /\ next_id = 2
    /\ now = 0
    /\ last = Call("init", 0, None, <<>>)
    /\ trip = NoTrip
    /\ incoming_request_count = [g \in Groups |-> 0]
    /\ site_profiles = [u \in Users |->
            [pending_outgoing_request_count |-> IF u = "carol" THEN 1 ELSE 0,
             total_outgoing_request_count |-> IF u = "carol" THEN 1 ELSE 0,
             direct_incoming_request_count |-> 0,
             total_incoming_request_count |-> 0]]
    /\ review_requests = (1 :> ReviewRequest("carol", None))
    /\ drafts = (1 :> ReviewRequestDraft(ReviewRequest("carol", None)))
    /\ \E model \in {"ReviewRequest", "ReviewRequestDraft"} :
        \/ \E summary \in SummaryInputs :
                calls = (1 :> [pc |-> "edited", model |-> model,
                               given |-> summary,
                               summary |-> summary, bugs_closed |-> ""])
        \/ \E bugs_closed \in BugInputs :
                calls = (1 :> [pc |-> "edited", model |-> model,
                               given |-> bugs_closed,
                               summary |-> "", bugs_closed |-> bugs_closed])

fields_frame == <<next_id, now, trip, group_rows, media, draft_rows,
                  sequential, default_reviewers, filediffs,
                  reviews, shipit_count>>

\* What a save makes of the position of the caller.
after_save(pc) == IF pc = "edited" THEN "saved" ELSE "saved again"

\* review_request.save() by caller p, on the instance it holds: the fields
\* are stripped and truncated on the instance and written to the row.
\* Without update_counts, on an instance with an id, the counters stay.
RequestSave(p) ==
    /\ p \in DOMAIN calls
    /\ calls[p].model = "ReviewRequest"
    /\ calls[p].pc \in {"edited", "saved"}
    /\ LET self == saved([review_requests[1] EXCEPT
                            !.summary = calls[p].summary,
                            !.bugs_closed = calls[p].bugs_closed])
           c == IF save_counts(FALSE, FALSE)
                THEN update_counts(self, FALSE, review_requests[1].status,
                                   review_requests[1].public, Counts)
                ELSE Counts
       IN /\ InRange(c)
          /\ review_requests' = [review_requests EXCEPT ![1] = self]
          /\ incoming_request_count' = c.groups
          /\ site_profiles' = c.profiles
          /\ calls' = [calls EXCEPT ![p].pc = after_save(@),
                                    ![p].summary = self.summary,
                                    ![p].bugs_closed = self.bugs_closed]
    /\ last' = Call("save", 1, None, <<>>)
    /\ UNCHANGED <<fields_frame, drafts, answer>>

\* draft.save() by caller p, on the instance it holds.
DraftSave(p) ==
    /\ p \in DOMAIN calls
    /\ calls[p].model = "ReviewRequestDraft"
    /\ calls[p].pc \in {"edited", "saved"}
    /\ LET self == saved([drafts[1] EXCEPT
                            !.summary = calls[p].summary,
                            !.bugs_closed = calls[p].bugs_closed])
       IN /\ drafts' = [drafts EXCEPT ![1] = self]
          /\ calls' = [calls EXCEPT ![p].pc = after_save(@),
                                    ![p].summary = self.summary,
                                    ![p].bugs_closed = self.bugs_closed]
    /\ last' = Call("draft_save", 1, None, <<>>)
    /\ UNCHANGED <<fields_frame, review_requests, incoming_request_count,
                   site_profiles, answer>>

\* get_bug_list() by caller p, on the instance it holds, saved or not.
GetBugList(p) ==
    /\ p \in DOMAIN calls
    /\ answer' = Answer("get_bug_list", 1, None, calls[p].bugs_closed,
                        get_bug_list(calls[p].bugs_closed))
    /\ UNCHANGED <<fields_frame, db, calls, last>>

FieldsNext ==
    \E p \in {1} : RequestSave(p) \/ DraftSave(p) \/ GetBugList(p)

FieldsSpec == FieldsInit /\ [][FieldsNext]_vars

\* ------------------------------------------------ the closed request

\* A review request of carol that has just been closed, as Submitted or as
\* Discarded: published before or not, the close recorded in its history
\* (at the time the clock starts from), no draft, and counted by nobody but
\* carol's total of requests.
ClosedInit ==
    /\ Quiet
    /\ group_rows = [g \in Groups |-> Group(GroupUsers[g])]
    /\ answer = NoAnswer
    /\ media = NoMedia
    /\ next_id = 2
    /\ now = 0
    /\ last = Call("init", 0, None, <<>>)
    /\ trip = NoTrip
    /\ drafts = <<>>
    /\ incoming_request_count = [g \in Groups |-> 0]
    /\ site_profiles = [u \in Users |->
            [pending_outgoing_request_count |-> 0,
             total_outgoing_request_count |-> IF u = "carol" THEN 1 ELSE 0,
             direct_incoming_request_count |-> 0,
             total_incoming_request_count |-> 0]]
    /\ \E type \in {SUBMITTED, DISCARDED}, public \in BOOLEAN,
          target_groups \in SUBSET Groups :
        LET open == [ReviewRequest("carol", None) EXCEPT
                        !.summary = "fix", !.public = public,
                        !.target_groups = target_groups]
        IN /\ public \/ target_groups = {}
           /\ review_requests = (1 :>
                [open EXCEPT
                    !.status = type,
                    !.changedescs = <<close_changedesc(open, type, "", 0)>>])

\* What is done with a closed request: it is edited through a draft,
\* published, closed again, reopened.
ClosedNext ==
    \/ \E r \in ReviewRequestIds : DraftCreate(r)
    \/ \E r \in ReviewRequestIds, summary \in DraftSummaries,
          target_groups \in SUBSET Groups :
            DraftEdit(r, summary, target_groups, {})
    \/ \E r \in ReviewRequestIds, user \in Users : Publish(r, user)
    \/ \E r \in ReviewRequestIds, type \in CloseTypes,
          user \in Users \cup {None}, description \in Descriptions :
            Close(r, type, user, description)
    \/ \E r \in ReviewRequestIds, user \in Users \cup {None} : Reopen(r, user)

ClosedSpec == ClosedInit /\ [][ClosedNext]_vars

\* ---------------------------------------------------------- the reviews

\* The reviews of the request there are.
MaxReviews == 3
ReviewIds == 1..MaxReviews

\* Review.is_reply(): base_reply_to != None (<<>> for a base_reply_to of
\* None).
is_reply(self) == self.base_reply_to # <<>>

\* A public Pending review request of carol for group g1, with reviews by
\* alice that are not published yet: each marked ship-it or not, those after
\* the first being reviews of their own or replies to the first.
ReviewsInit ==
    /\ calls = <<>>
    /\ draft_rows = <<>>
    /\ sequential = <<>>
    /\ default_reviewers = <<>>
    /\ filediffs = <<>>
    /\ group_rows = [g \in Groups |-> Group(GroupUsers[g])]
    /\ answer = NoAnswer
    /\ media = NoMedia
    /\ drafts = <<>>
    /\ next_id = 2
    /\ now = 0
    /\ last = Call("init", 0, None, <<>>)
    /\ trip = NoTrip
    /\ LET self == [ReviewRequest("carol", None) EXCEPT
                        !.summary = "fix", !.public = TRUE,
                        !.target_groups = {"g1"}]
           zero == [groups |-> [g \in Groups |-> 0],
                    profiles |-> [u \in Users |->
                        [pending_outgoing_request_count |-> 0,
                         total_outgoing_request_count |-> 0,
                         direct_incoming_request_count |-> 0,
                         total_incoming_request_count |-> 0]]]
           c == add_incoming(
                    add_profile(
                        add_profile(zero, "carol",
                                    "total_outgoing_request_count", 1),
                        "carol", "pending_outgoing_request_count", 1),
                    self.target_groups, self.target_people, 1)
       IN /\ review_requests = (1 :> self)
          /\ incoming_request_count = c.groups
          /\ site_profiles = c.profiles
    /\ shipit_count = (1 :> 0)
    /\ \E ship_it \in [ReviewIds -> BOOLEAN],
          base_reply_to \in [ReviewIds -> {<<>>, <<1>>}] :
        /\ base_reply_to[1] = <<>>
        /\ reviews = [id \in ReviewIds |->
                [review_request |-> 1, user |-> "alice", public |-> FALSE,
                 ship_it |-> ship_it[id], timestamp |-> 0,
                 base_reply_to |-> base_reply_to[id]]]

\* Review.publish() on review id: the review is made public and saved, which
\* stamps it (Review.save); the review request gets the stamp as its
\* last_review_timestamp and is saved; its ship-it counter is incremented
\* if the review is marked ship-it; reply_published or review_published is
\* sent.  The comments of a review are not carried.
ReviewPublish(id) ==
    /\ id \in DOMAIN reviews
    /\ now < MaxClock
    /\ LET t == now + 1
           self == [reviews[id] EXCEPT !.public = TRUE, !.timestamp = t]
           r == self.review_request
           review_request == saved([review_requests[r] EXCEPT
                                      !.last_review_timestamp = t])
           c == IF save_counts(FALSE, FALSE)
                THEN update_counts(review_request, FALSE,
                                   review_requests[r].status,
                                   review_requests[r].public, Counts)
                ELSE Counts
       IN /\ InRange(c)
          /\ reviews' = [reviews EXCEPT ![id] = self]
          /\ review_requests' =
                [review_requests EXCEPT ![r] = review_request]
          /\ incoming_request_count' = c.groups
          /\ site_profiles' = c.profiles
          /\ shipit_count' = [shipit_count EXCEPT ![r] =
                IF self.ship_it THEN @ + 1 ELSE @]
          /\ now' = t
          /\ last' = Call("review.publish", r, None,
                <<Signal(IF is_reply(self) THEN "reply_published"
                         ELSE "review_published", r, None, <<>>)>>)
    /\ UNCHANGED <<drafts, media, next_id, trip, group_rows, answer, calls,
                   draft_rows, sequential, default_reviewers, filediffs>>

ReviewsNext == \E id \in ReviewIds : ReviewPublish(id)

ReviewsSpec == ReviewsInit /\ [][ReviewsNext]_vars

\* ------------------------------------------- concurrent first edits

\* The callers that run at the same time.
Callers == {1, 2}

\* No call in flight.
Idle == [pc |-> "idle"]

unique_unchecked(rows, r) == TRUE

\* unique=True on ReviewRequestDraft.review_request: an INSERT of a draft of
\* review request r is refused (IntegrityError) when r has a draft row.
unique_review_request(rows, r) ==
    \A k \in DOMAIN rows : rows[k].review_request # r

\* The primary keys of the drafts of review request r.
drafts_of(rows, r) == {k \in DOMAIN rows : rows[k].review_request = r}

\* One review request of carol, never published or published to g1, without
\* a draft, and no call in flight.
DraftInit ==
    /\ calls = [p \in Callers |-> Idle]
    /\ draft_rows = <<>>
    /\ sequential = <<>>
    /\ default_reviewers = <<>>
    /\ filediffs = <<>>
    /\ reviews = <<>>
    /\ shipit_count = <<>>
    /\ drafts = <<>>
    /\ group_rows = [g \in Groups |-> Group(GroupUsers[g])]
    /\ answer = NoAnswer
    /\ media = NoMedia
    /\ next_id = 2
    /\ now = 0
    /\ last = Call("init", 0, None, <<>>)
    /\ trip = [stage |-> 0, r |-> 0, base |-> 0]
    /\ \E public \in BOOLEAN :
        LET created == [ReviewRequest("carol", None) EXCEPT !.summary = "fix"]
            self == IF public
                    THEN [created EXCEPT !.public = TRUE,
                                         !.target_groups = {"g1"}]
                    ELSE created
            zero == [groups |-> [g \in Groups |-> 0],
                     profiles |-> [u \in Users |->
                        [pending_outgoing_request_count |-> 0,
                         total_outgoing_request_count |-> 0,
                         direct_incoming_request_count |-> 0,
                         total_incoming_request_count |-> 0]]]
            c1 == add_profile(
                    add_profile(zero, "carol",
                                "total_outgoing_request_count", 1),
                    "carol", "pending_outgoing_request_count", 1)
            c2 == IF public
                  THEN add_incoming(c1, self.target_groups,
                                    self.target_people, 1)
                  ELSE c1
        IN /\ review_requests = (1 :> self)
           /\ incoming_request_count = c2.groups
           /\ site_profiles = c2.profiles

\* What a step of ReviewRequestDraft.create leaves alone.
create_frame == <<review_requests, drafts, incoming_request_count,
                  site_profiles, next_id, last, trip, group_rows, answer,
                  sequential, default_reviewers, filediffs,
                  reviews, shipit_count>>

\* A view loads review request r and calls ReviewRequestDraft.create on it.
CreateStart(p, r) ==
    /\ calls[p].pc \in {"idle", "done"}
    /\ r \in DOMAIN review_requests
    /\ calls' = [calls EXCEPT ![p] =
            [pc |-> "get", r |-> r, review_request |-> review_requests[r],
             draft |-> 0, instance |-> <<>>, draft_is_new |-> FALSE,
             integrity_error |-> FALSE]]
    /\ UNCHANGED <<create_frame, draft_rows, media, now>>

\* get_or_create looks the draft up: self.get(review_request=...), the first
\* time or again after the IntegrityError.
CreateGet(p) ==
    /\ calls[p].pc \in {"get", "get_again"}
    /\ LET found == drafts_of(draft_rows, calls[p].r)
       IN calls' = [calls EXCEPT ![p] =
            IF Cardinality(found) = 1
            THEN [@ EXCEPT !.pc = "rest",
                           !.draft = CHOOSE k \in found : TRUE,
                           !.instance =
                              draft_rows[CHOOSE k \in found : TRUE]]
            ELSE IF found = {} /\ calls[p].pc = "get"
            THEN [@ EXCEPT !.pc = "insert"]
            ELSE [@ EXCEPT !.pc = "raised"]]
    /\ UNCHANGED <<create_frame, draft_rows, media, now>>

\* get_or_create found no draft and inserts one made from the defaults; the
\* database refuses a second draft of the review request.
CreateInsert(p) ==
    /\ calls[p].pc = "insert"
    /\ LET r == calls[p].r
           row == [review_request |-> r]
                    @@ ReviewRequestDraft(calls[p].review_request)
       IN IF unique_review_request(draft_rows, r)
          THEN /\ draft_rows' = Append(draft_rows, row)
               /\ calls' = [calls EXCEPT ![p] =
                    [@ EXCEPT !.pc = "rest", !.draft = Len(draft_rows) + 1,
                              !.instance = row, !.draft_is_new = TRUE]]
          ELSE /\ draft_rows' = draft_rows
               /\ calls' = [calls EXCEPT ![p] =
                    [@ EXCEPT !.pc = "get_again",
                              !.integrity_error = TRUE]]
    /\ UNCHANGED <<create_frame, media, now>>

\* The rest of ReviewRequestDraft.create, after get_or_create: the
\* ChangeDescription of a draft of a public request, and for a new draft the
\* targets, the screenshots and the file attachments of the request, then
\* draft.save(); the draft is returned.
CreateRest(p) ==
    /\ calls[p].pc = "rest"
    /\ LET r == calls[p].r
           k == calls[p].draft
           made == draft_create(calls[p].review_request, r,
                                IF calls[p].draft_is_new THEN <<>>
                                ELSE (r :> calls[p].instance), now + 1)
           stamped == made.draft_is_new /\ made.draft.changedesc # <<>>
       IN /\ stamped => now < MaxClock
          /\ draft_rows' = IF made.draft_is_new
                           THEN [draft_rows EXCEPT ![k] =
                                    [review_request |-> r] @@ made.draft]
                           ELSE draft_rows
          /\ media' = made.media
          /\ now' = IF stamped THEN now + 1 ELSE now
          /\ calls' = [calls EXCEPT ![p] =
                [@ EXCEPT !.pc = "done", !.instance = made.draft]]
    /\ UNCHANGED create_frame

\* An edit of the fields of the draft of primary key k followed by
\* ReviewRequestDraft.save().
DraftRowEdit(k, summary, target_groups) ==
    /\ k \in DOMAIN draft_rows
    /\ draft_rows' = [draft_rows EXCEPT ![k] =
            saved([@ EXCEPT !.summary = summary,
                            !.target_groups = target_groups])]
    /\ UNCHANGED <<create_frame, calls, media, now>>

DraftNext ==
    \/ \E p \in Callers, r \in ReviewRequestIds : CreateStart(p, r)
    \/ \E p \in Callers : CreateGet(p)
    \/ \E p \in Callers : CreateInsert(p)
    \/ \E p \in Callers : CreateRest(p)
    \/ \E k \in 1..Len(draft_rows), summary \in DraftSummaries,
          target_groups \in SUBSET Groups :
            DraftRowEdit(k, summary, target_groups)

DraftSpec == DraftInit /\ [][DraftNext]_vars

\* ------------------------------------------------ concurrent publishes

\* The review requests two callers publish at the same time.
RaceIds == {1, 2}

\* The instance a caller holds, as the database sees it: the scalar fields
\* are the instance's, the many-to-many relations are read from the tables
\* whenever they are used.
loaded(instance, row) ==
    [row EXCEPT !.submitter = instance.submitter,
                !.status = instance.status,
                !.public = instance.public,
                !.summary = instance.summary,
                !.description = instance.description,
                !.testing_done = instance.testing_done,
                !.branch = instance.branch,
                !.repository = instance.repository,
                !.bugs_closed = instance.bugs_closed]

counter_base_read(current, read) == read

\* CounterField.increment and decrement are UPDATE ... SET f = f + by: the
\* value added to is the one in the database at that moment, not one the
\* caller read before (counts_read, which the code never uses).
counter_base(current, read) == current

\* ReviewRequest.publish(user) run alone by a user allowed to: the rows, the
\* drafts and the counters after it.
publish_alone(st, r) ==
    LET self == st.review_requests[r]
        has_draft == r \in DOMAIN st.drafts
        c1 == IF self.public
              THEN add_incoming(st.counts, self.target_groups,
                                self.target_people, -1)
              ELSE st.counts
        pub == IF has_draft
               THEN draft_publish(st.drafts[r], self, st.now + 1)
               ELSE [review_request |-> self, changedesc |-> <<>>]
        row == pub.review_request
        self2 == make_public(pub.review_request)
    IN [review_requests |-> [st.review_requests EXCEPT ![r] = saved(self2)],
        drafts |-> delete_draft(st.drafts, r),
        counts |-> update_counts(self2, FALSE, row.status, row.public, c1),
        now |-> IF pub.changedesc # <<>> THEN st.now + 1 ELSE st.now]

\* Two review requests of carol, each never published or published to g1,
\* each with a draft; two callers about to publish one of them each, the
\* same one or not; and what the counters are after the publishes of the
\* two callers run one after the other, and after the first alone.
RaceInit ==
    /\ draft_rows = <<>>
    /\ default_reviewers = <<>>
    /\ filediffs = <<>>
    /\ reviews = <<>>
    /\ shipit_count = <<>>
    /\ group_rows = [g \in Groups |-> Group(GroupUsers[g])]
    /\ answer = NoAnswer
    /\ media = NoMedia
    /\ next_id = 3
    /\ last = Call("init", 0, None, <<>>)
    /\ trip = [stage |-> 0, r |-> 0, base |-> 0]
    /\ \E public \in [RaceIds -> BOOLEAN],
          target_groups \in [RaceIds -> SUBSET Groups],
          of \in [Callers -> RaceIds] :
        LET created == [ReviewRequest("carol", None) EXCEPT !.summary = "fix"]
            row(r) == IF public[r]
                      THEN [created EXCEPT !.public = TRUE,
                                           !.target_groups = {"g1"}]
                      ELSE created
            draft(r) == [ReviewRequestDraft(row(r)) EXCEPT
                            !.changedesc =
                                IF public[r]
                                THEN <<ChangeDescription(FALSE, "", 1)>>
                                ELSE <<>>,
                            !.target_groups = target_groups[r]]
            zero == [groups |-> [g \in Groups |-> 0],
                     profiles |-> [u \in Users |->
                        [pending_outgoing_request_count |-> 0,
                         total_outgoing_request_count |-> 0,
                         direct_incoming_request_count |-> 0,
                         total_incoming_request_count |-> 0]]]
            c1 == add_profile(
                    add_profile(zero, "carol",
                                "total_outgoing_request_count", 2),
                    "carol", "pending_outgoing_request_count", 2)
            c2 == IF public[1]
                  THEN add_incoming(c1, row(1).target_groups, {}, 1)
                  ELSE c1
            c3 == IF public[2]
                  THEN add_incoming(c2, row(2).target_groups, {}, 1)
                  ELSE c2
            st == [review_requests |-> [r \in RaceIds |-> row(r)],
                   drafts |-> [r \in RaceIds |-> saved(draft(r))],
                   counts |-> c3,
                   now |-> IF \E r \in RaceIds : public[r] THEN 1 ELSE 0]
            first == publish_alone(st, of[1])
        IN /\ review_requests = st.review_requests
           /\ drafts = st.drafts
           /\ incoming_request_count = c3.groups
           /\ site_profiles = c3.profiles
           /\ now = st.now
           /\ calls = [p \in Callers |-> [pc |-> "idle", r |-> of[p]]]
           /\ sequential = [once |-> first.counts,
                            both |-> publish_alone(first, of[2]).counts]

\* What a step of a concurrent publish leaves alone.
race_frame == <<next_id, trip, group_rows, answer, media, draft_rows,
                sequential, default_reviewers, filediffs,
                  reviews, shipit_count>>

\* A view loads the review request and calls publish(user) on it, for a
\* user who may (line 769).
PublishStart(p, user) ==
    /\ calls[p].pc = "idle"
    /\ is_mutable_by(review_requests[calls[p].r], user)
    /\ calls' = [calls EXCEPT ![p] =
            [pc |-> "decrement", r |-> calls[p].r,
             self |-> review_requests[calls[p].r],
             changes |-> <<>>, counts_read |-> Counts]]
    /\ UNCHANGED <<race_frame, db, now, last>>

\* if self.public: the decrements of lines 779-794.  The UPDATEs of one
\* caller are taken together: they add, and publish reads no counter.
PublishDecrement(p) ==
    /\ calls[p].pc = "decrement"
    /\ LET row == review_requests[calls[p].r]
           c == IF calls[p].self.public
                THEN add_incoming(counter_base(Counts, calls[p].counts_read),
                                  row.target_groups, row.target_people, -1)
                ELSE Counts
       IN /\ incoming_request_count' = c.groups
          /\ site_profiles' = c.profiles
          /\ calls' = [calls EXCEPT ![p] =
                [@ EXCEPT !.pc = "draft",
                          !.counts_read =
                              IF calls[p].self.public THEN c ELSE @]]
    /\ UNCHANGED <<race_frame, review_requests, drafts, now, last>>

\* draft = get_object_or_none(self.draft) and, if there is one,
\* draft.publish(self, send_notification=False), which saves the instance.
PublishDraft(p) ==
    /\ calls[p].pc = "draft"
    /\ LET r == calls[p].r
           self == loaded(calls[p].self, review_requests[r])
       IN IF r \in DOMAIN drafts
          THEN LET pub == draft_publish(drafts[r], self, now + 1)
               IN /\ pub.changedesc # <<>> => now < MaxClock
                  /\ review_requests' =
                        [review_requests EXCEPT ![r] = pub.review_request]
                  /\ now' = IF pub.changedesc # <<>> THEN now + 1 ELSE now
                  /\ calls' = [calls EXCEPT ![p] =
                        [@ EXCEPT !.pc = "delete",
                                  !.self = pub.review_request,
                                  !.changes = pub.changedesc]]
          ELSE /\ calls' = [calls EXCEPT ![p] = [@ EXCEPT !.pc = "count"]]
               /\ UNCHANGED <<review_requests, now>>
    /\ UNCHANGED <<race_frame, drafts, incoming_request_count, site_profiles,
                   last>>

\* draft.delete().
PublishDelete(p) ==
    /\ calls[p].pc = "delete"
    /\ drafts' = delete_draft(drafts, calls[p].r)
    /\ calls' = [calls EXCEPT ![p] = [@ EXCEPT !.pc = "count"]]
    /\ UNCHANGED <<race_frame, review_requests, incoming_request_count,
                   site_profiles, now, last>>

\* self.public = True and, in save(update_counts=True), _update_counts():
\* the row is read back and the counters are added to.
PublishCount(p) ==
    /\ calls[p].pc = "count"
    /\ LET row == review_requests[calls[p].r]
           self == make_public(loaded(calls[p].self, row))
           c == update_counts(self, FALSE, row.status, row.public,
                              counter_base(Counts, calls[p].counts_read))
       IN /\ incoming_request_count' = c.groups
          /\ site_profiles' = c.profiles
          /\ calls' = [calls EXCEPT ![p] =
                [@ EXCEPT !.pc = "save", !.self = self, !.counts_read = c]]
    /\ UNCHANGED <<race_frame, review_requests, drafts, now, last>>

\* The end of save(): the instance is written to its row; then
\* review_request_published is sent.
PublishSave(p) ==
    /\ calls[p].pc = "save"
    /\ LET r == calls[p].r
       IN /\ review_requests' = [review_requests EXCEPT ![r] =
                saved(loaded(calls[p].self, review_requests[r]))]
          /\ last' = Call("publish", r, None,
                <<Signal("review_request_published", r, None,
                         calls[p].changes)>>)
    /\ calls' = [calls EXCEPT ![p] = [@ EXCEPT !.pc = "done"]]
    /\ UNCHANGED <<race_frame, drafts, incoming_request_count, site_profiles,
                   now>>

RaceNext ==
    \/ \E p \in Callers, user \in Users : PublishStart(p, user)
    \/ \E p \in Callers : PublishDecrement(p)
    \/ \E p \in Callers : PublishDraft(p)
    \/ \E p \in Callers : PublishDelete(p)
    \/ \E p \in Callers : PublishCount(p)
    \/ \E p \in Callers : PublishSave(p)

RaceSpec == RaceInit /\ [][RaceNext]_vars

\* ---------------------------------------------------- default reviewers

\* The file patterns of the rules drawn: literal characters, "." and "*".
\* The last one does not compile.
Patterns == {".*", "src/", "docs/.*", "("}

\* The FileDiff lists of the diff drawn: a changed file, a new file (no
\* source_file) before a changed file, a new file alone.
FileLists ==
    {<<[source_file |-> "src/a.c", dest_file |-> "src/a.c"]>>,
     <<[source_file |-> "", dest_file |-> "README"],
       [source_file |-> "src/a.c", dest_file |-> "src/b.c"]>>,
     <<[source_file |-> "", dest_file |-> "README"]>>}

\* Whether re.compile(pattern) returns: the parentheses pair up and there is
\* something for a "*" to repeat.
RECURSIVE pairs_up(_, _, _)
pairs_up(pattern, i, open) ==
    IF i > Len(pattern) THEN open = 0
    ELSE LET ch == SubSeq(pattern, i, i)
         IN IF ch = "(" THEN pairs_up(pattern, i + 1, open + 1)
            ELSE IF ch = ")"
            THEN open > 0 /\ pairs_up(pattern, i + 1, open - 1)
            ELSE pairs_up(pattern, i + 1, open)

re_compiles(pattern) ==
    /\ pairs_up(pattern, 1, 0)
    /\ Len(pattern) > 0 => SubSeq(pattern, 1, 1) # "*"

\* regex.match(string) for a pattern of literal characters, "." and "*":
\* whether the pattern from position i matches at position j of the string
\* (match anchors at the start and may stop before the end).
RECURSIVE re_match_at(_, _, _, _)
re_match_at(pattern, i, string, j) ==
    LET is(k) == /\ k <= Len(string)
                 /\ SubSeq(pattern, i, i) \in {".", SubSeq(string, k, k)}
    IN IF i > Len(pattern) THEN TRUE
       ELSE IF i < Len(pattern) /\ SubSeq(pattern, i + 1, i + 1) = "*"
       THEN \E n \in 0..(Len(string) - j + 1) :
                /\ \A k \in j..(j + n - 1) : is(k)
                /\ re_match_at(pattern, i + 2, string, j + n)
       ELSE is(j) /\ re_match_at(pattern, i + 1, string, j + 1)

re_match(pattern, string) == re_match_at(pattern, 1, string, 1)

\* DefaultReviewer.objects.for_repository(repository): the rules of the
\* repository and the rules of no repository, in order.
for_repository(rules, repository) ==
    LET applies(default) ==
            default.repository = {} \/ repository \in default.repository
    IN SelectSeq(rules, applies)

\* filediff.source_file or filediff.dest_file.
source_file_or_dest_file(filediff) ==
    IF filediff.source_file # "" THEN filediff.source_file
    ELSE filediff.dest_file

\* The inner loop: whether some file of files[i..] matches (the loop breaks
\* at the first).
RECURSIVE matches_a_file(_, _, _)
matches_a_file(file_regex, files, i) ==
    IF i > Len(files) THEN FALSE
    ELSE IF re_match(file_regex, source_file_or_dest_file(files[i])) THEN TRUE
    ELSE matches_a_file(file_regex, files, i + 1)

\* The outer loop over rules[i..], with the people and groups collected so
\* far: guarded is whether re.compile stands in a try whose except
\* continues (the draft's loop) or not (the review request's loop, where
\* the error of a pattern that does not compile ends the call).
RECURSIVE collect(_, _, _, _, _, _)
collect(rules, i, files, people, groups, guarded) ==
    IF i > Len(rules)
    THEN [raised |-> None, people |-> people, groups |-> groups]
    ELSE IF ~re_compiles(rules[i].file_regex)
    THEN IF guarded
         THEN collect(rules, i + 1, files, people, groups, guarded)
         ELSE [raised |-> "error", people |-> people, groups |-> groups]
    ELSE IF matches_a_file(rules[i].file_regex, files, 1)
    THEN collect(rules, i + 1, files, people \cup rules[i].people,
                 groups \cup rules[i].groups, guarded)
    ELSE collect(rules, i + 1, files, people, groups, guarded)

only_found(existing, found) == found

\* for x in found: if x not in existing: target.add(x).
add_missing(existing, found) == existing \cup found

\* A review request of carol in repository "repo", never published, with a
\* draft; both with the diff r1 or without, and with the same targets; two
\* DefaultReviewer rows, the second of one repository.
ReviewersInit ==
    /\ calls = <<>>
    /\ draft_rows = <<>>
    /\ sequential = <<>>
    /\ group_rows = [g \in Groups |-> Group(GroupUsers[g])]
    /\ answer = NoAnswer
    /\ media = NoMedia
    /\ next_id = 2
    /\ now = 0
    /\ last = Call("init", 0, None, <<>>)
    /\ trip = NoTrip
    /\ incoming_request_count = [g \in Groups |-> 0]
    /\ site_profiles = [u \in Users |->
            [pending_outgoing_request_count |-> IF u = "carol" THEN 1 ELSE 0,
             total_outgoing_request_count |-> IF u = "carol" THEN 1 ELSE 0,
             direct_incoming_request_count |-> 0,
             total_incoming_request_count |-> 0]]
    /\ reviews = <<>>
    /\ shipit_count = <<>>
    /\ \E files \in FileLists : filediffs = ("r1" :> files)
    /\ \E first \in [file_regex : Patterns, repository : {{}},
                     people : {{"bob"}}, groups : SUBSET Groups],
          second \in [file_regex : Patterns,
                      repository : {{"repo"}, {"other"}},
                      people : SUBSET {"bob"}, groups : {{"g1"}}] :
            default_reviewers = <<first, second>>
    /\ \E diffset_history \in {{}, {"r1"}}, diffset \in {None, "r1"},
          target_groups \in SUBSET Groups, target_people \in SUBSET {"alice"} :
        LET self == [ReviewRequest("carol", "repo") EXCEPT
                        !.summary = "fix",
                        !.diffset_history = diffset_history,
                        !.target_groups = target_groups,
                        !.target_people = target_people]
        IN /\ review_requests = (1 :> self)
           /\ drafts = (1 :> [ReviewRequestDraft(self) EXCEPT
                                !.diffset = diffset,
                                !.target_groups = target_groups,
                                !.target_people = target_people])

\* ReviewRequest.add_default_reviewers().
AddDefaultReviewers(r) ==
    /\ r \in DOMAIN review_requests
    /\ UNCHANGED world
    /\ LET self == review_requests[r]
       IN IF Cardinality(self.diffset_history) # 1
          THEN /\ last' = Call("add_default_reviewers", r, None, <<>>)
               /\ UNCHANGED review_requests
          ELSE LET diffset == CHOOSE d \in self.diffset_history : TRUE
                   found == collect(
                        for_repository(default_reviewers, self.repository),
                        1, filediffs[diffset], {}, {}, FALSE)
               IN IF found.raised # None
                  THEN /\ last' = Call("add_default_reviewers", r,
                                       found.raised, <<>>)
                       /\ UNCHANGED review_requests
                  ELSE /\ last' = Call("add_default_reviewers", r, None, <<>>)
                       /\ review_requests' = [review_requests EXCEPT ![r] =
                            [@ EXCEPT
                                !.target_people =
                                    add_missing(@, found.people),
                                !.target_groups =
                                    add_missing(@, found.groups)]]
    /\ UNCHANGED <<drafts, incoming_request_count, site_profiles, media,
                   next_id, now, trip>>

\* ReviewRequestDraft.add_default_reviewers() on the draft of r.
DraftAddDefaultReviewers(r) ==
    /\ r \in DOMAIN drafts
    /\ UNCHANGED world
    /\ LET self == drafts[r]
       IN IF self.diffset = None
          THEN /\ last' = Call("draft.add_default_reviewers", r, None, <<>>)
               /\ UNCHANGED drafts
          ELSE LET found == collect(
                        for_repository(default_reviewers,
                                       review_requests[r].repository),
                        1, filediffs[self.diffset], {}, {}, TRUE)
               IN /\ last' = Call("draft.add_default_reviewers", r,
                                  found.raised, <<>>)
                  /\ drafts' = [drafts EXCEPT ![r] =
                        [@ EXCEPT
                            !.target_people = add_missing(@, found.people),
                            !.target_groups = add_missing(@, found.groups)]]
    /\ UNCHANGED <<review_requests, incoming_request_count, site_profiles,
                   media, next_id, now, trip>>

ReviewersNext ==
    \/ \E r \in ReviewRequestIds : AddDefaultReviewers(r)
    \/ \E r \in ReviewRequestIds : DraftAddDefaultReviewers(r)

ReviewersSpec == ReviewersInit /\ [][ReviewersNext]_vars

\* ---------------------------------------------------------------- claims

\* Group.incoming_request_count's initializer, the recomputed value:
\* ReviewRequest.objects.to_group(g).count(), the public Pending review
\* requests that list g as a target.
recompute_incoming(g) ==
    Cardinality({r \in DOMAIN review_requests :
                    /\ review_requests[r].public
                    /\ review_requests[r].status = PENDING_REVIEW
                    /\ g \in review_requests[r].target_groups})

\* The submitter's Pending review requests, recomputed.
recompute_pending_outgoing(u) ==
    Cardinality({r \in DOMAIN review_requests :
                    /\ review_requests[r].submitter = u
                    /\ review_requests[r].status = PENDING_REVIEW})

\* C1: after any sequence of create, publish, close, reopen and delete, every
\* group's incrementally maintained incoming_request_count equals the number
\* of existing public, Pending review requests that list the group as target.
C1_IncomingCountIsRecomputed ==
    \A g \in Groups : incoming_request_count[g] = recompute_incoming(g)

\* C2: after any sequence of operations a submitter's pending-outgoing counter
\* equals the number of that submitter's existing Pending review requests (so
\* a close from Submitted to Discarded, or back, moves it by 0).
C2_PendingOutgoingIsRecomputed ==
    \A u \in Users :
        site_profiles[u].pending_outgoing_request_count
            = recompute_pending_outgoing(u)

\* ReviewRequest.can_publish().
can_publish(r) ==
    ~review_requests[r].public \/ r \in DOMAIN drafts

\* The request of key r before and after the step.
Before(r) == review_requests[r]
After(r) == review_requests'[r]

\* description or "".
TextOf(description) == IF description = None THEN "" ELSE description

StatusChange(old, new) == [status |-> [old |-> old, new |-> new]]

\* C3: publish by a user without the edit-review-request permission raises
\* PermissionError and changes nothing: counters, the request's fields,
\* targets, public flag and history and the draft are as before, and no
\* signal is sent.
C3_PublishDeniedChangesNothing ==
    [][\A r \in ReviewRequestIds, user \in Users :
        (Publish(r, user) /\ ~has_perm(user, "reviews.can_edit_reviewrequest"))
            => /\ last'.raised = "PermissionError"
               /\ last'.signals = <<>>
               /\ UNCHANGED db]_vars

\* A denied publish of a public request that has a draft.
C3_Witness ==
    /\ last.op = "publish"
    /\ last.raised = "PermissionError"
    /\ last.r \in DOMAIN drafts
    /\ review_requests[last.r].public

\* C4: close and reopen by a user holding neither the edit-review-request nor
\* the change-status permission raise PermissionError, change nothing and send
\* no signal; a user holding either permission is not refused.
C4_StatusChangeNeedsEitherPermission ==
    [][\A r \in ReviewRequestIds, user \in Users, type \in CloseTypes,
          description \in Descriptions :
        LET neither == /\ ~has_perm(user, "reviews.can_edit_reviewrequest")
                       /\ ~has_perm(user, "reviews.can_change_status")
        IN (Close(r, type, user, description) \/ Reopen(r, user))
            => IF neither
               THEN /\ last'.raised = "PermissionError"
                    /\ last'.signals = <<>>
                    /\ UNCHANGED db
               ELSE last'.raised # "PermissionError"]_vars

\* A denied reopen of a closed request that has a draft.
C4_Witness ==
    /\ last.op = "reopen"
    /\ last.raised = "PermissionError"
    /\ last.r \in DOMAIN drafts
    /\ review_requests[last.r].status # PENDING_REVIEW

\* C5: after a successful publish the request is public and has no draft, so
\* can_publish() is false.
C5_PublishedIsPublicWithoutDraft ==
    (last.op = "publish" /\ last.raised = None)
        => /\ review_requests[last.r].public
           /\ last.r \notin DOMAIN drafts
           /\ ~can_publish(last.r)

\* A publish that published a draft carrying a ChangeDescription.
C5_Witness ==
    /\ last.op = "publish"
    /\ last.raised = None
    /\ last.signals[1].changedesc # <<>>

\* C6: a close to a type other than the current status appends exactly one
\* public ChangeDescription, whose only field entry is status {old: previous
\* status, new: type} and whose text is the description, sets the status to
\* the type and sends exactly one closed signal.
C6_CloseRecordsStatusChange ==
    [][\A r \in ReviewRequestIds, user \in Users \cup {None},
          type \in {SUBMITTED, DISCARDED}, description \in Descriptions :
        (/\ Close(r, type, user, description)
         /\ last'.raised = None
         /\ Before(r).status # type)
            => LET before == Before(r).changedescs
                   after == After(r).changedescs
                   added == after[Len(after)]
               IN /\ Len(after) = Len(before) + 1
                  /\ SubSeq(after, 1, Len(before)) = before
                  /\ added.public
                  /\ added.fields_changed = StatusChange(Before(r).status, type)
                  /\ added.text = TextOf(description)
                  /\ After(r).status = type
                  /\ last'.signals =
                        <<Signal("review_request_closed", r, type, <<>>)>>]_vars

\* A close from Submitted to Discarded has been made.
C6_Witness ==
    /\ last.op = "close"
    /\ last.raised = None
    /\ last.signals # <<>>
    /\ LET h == review_requests[last.r].changedescs
       IN h[Len(h)].fields_changed = StatusChange(SUBMITTED, DISCARDED)

\* C7: a close to the status the request already has adds no ChangeDescription,
\* changes neither status nor counters, sends no closed signal and sets the
\* text of the latest public ChangeDescription to the description.
C7_CloseAgainRefreshesLatest ==
    [][\A r \in ReviewRequestIds, user \in Users \cup {None},
          type \in {SUBMITTED, DISCARDED}, description \in Descriptions :
        (/\ Close(r, type, user, description)
         /\ last'.raised = None
         /\ Before(r).status = type)
            => LET before == Before(r).changedescs
                   after == After(r).changedescs
               IN /\ Len(after) = Len(before)
                  /\ After(r).status = type
                  /\ UNCHANGED <<incoming_request_count, site_profiles>>
                  /\ last'.signals = <<>>
                  /\ \E i \in 1..Len(before) :
                        /\ before[i].public
                        /\ \A j \in 1..Len(before) :
                              before[j].public =>
                                  before[j].timestamp <= before[i].timestamp
                        /\ after[i].text = TextOf(description)]_vars

\* A close repeated on a request whose history holds two entries or more.
C7_Witness ==
    /\ last.op = "close"
    /\ last.raised = None
    /\ last.signals = <<>>
    /\ Len(review_requests[last.r].changedescs) >= 2

\* C8: from a public Pending request, close(Discarded), reopen, publish ends
\* with status Pending and public, and a history exactly 2 entries longer.
C8_RoundTripAddsTwoEntries ==
    trip.stage = 3
        => /\ review_requests[trip.r].status = PENDING_REVIEW
           /\ review_requests[trip.r].public
           /\ Len(review_requests[trip.r].changedescs) = trip.base + 2

\* The round trip has been made.
C8_Witness ==
    trip.stage = 3

\* C9: reopening a Discarded request sets status Pending and public False,
\* leaves the history as it was, and leaves one draft, whose changedesc is the
\* non-public one recording status Discarded -> Pending.
C9_ReopenDiscardedGoesToDraft ==
    [][\A r \in ReviewRequestIds, user \in Users \cup {None} :
        (/\ Reopen(r, user)
         /\ last'.raised = None
         /\ Before(r).status = DISCARDED)
            => /\ After(r).status = PENDING_REVIEW
               /\ ~After(r).public
               /\ After(r).changedescs = Before(r).changedescs
               /\ r \in DOMAIN drafts'
               /\ Len(drafts'[r].changedesc) = 1
               /\ ~drafts'[r].changedesc[1].public
               /\ drafts'[r].changedesc[1].fields_changed
                    = StatusChange(DISCARDED, PENDING_REVIEW)]_vars

\* A Discarded request that was public has been reopened.
C9_Witness ==
    /\ last.op = "reopen"
    /\ last.raised = None
    /\ last.r \in DOMAIN drafts
    /\ drafts[last.r].changedesc # <<>>
    /\ drafts[last.r].changedesc[1].fields_changed
            = StatusChange(DISCARDED, PENDING_REVIEW)
    /\ review_requests[last.r].target_groups # {}

\* C10: reopening a Submitted request sets status Pending, leaves the public
\* flag as it was, creates no draft and appends exactly one public
\* ChangeDescription recording status Submitted -> Pending.
C10_ReopenSubmittedRecordsInHistory ==
    [][\A r \in ReviewRequestIds, user \in Users \cup {None} :
        (/\ Reopen(r, user)
         /\ last'.raised = None
         /\ Before(r).status = SUBMITTED)
            => LET before == Before(r).changedescs
                   after == After(r).changedescs
                   added == after[Len(after)]
               IN /\ After(r).status = PENDING_REVIEW
                  /\ After(r).public = Before(r).public
                  /\ drafts' = drafts
                  /\ Len(after) = Len(before) + 1
                  /\ SubSeq(after, 1, Len(before)) = before
                  /\ added.public
                  /\ added.fields_changed
                        = StatusChange(SUBMITTED, PENDING_REVIEW)]_vars

\* A Submitted public request has been reopened.
C10_Witness ==
    /\ last.op = "reopen"
    /\ last.raised = None
    /\ review_requests[last.r].public
    /\ LET h == review_requests[last.r].changedescs
       IN /\ h # <<>>
          /\ h[Len(h)].fields_changed
                = StatusChange(SUBMITTED, PENDING_REVIEW)

\* C11: reopen on a request that is already Pending changes no state: the
\* request's status, public flag and history, the drafts and every counter
\* are after the call what they were before it.
C11_ReopenPendingChangesNothing ==
    [][\A r \in ReviewRequestIds, user \in Users \cup {None} :
        (/\ Reopen(r, user)
         /\ last'.raised = None
         /\ Before(r).status = PENDING_REVIEW)
            => UNCHANGED db]_vars

\* A reopen of a public request that was never closed and has a draft.
C11_Witness ==
    /\ last.op = "reopen"
    /\ last.raised = None
    /\ review_requests[last.r].changedescs = <<>>
    /\ review_requests[last.r].public
    /\ review_requests[last.r].target_groups # {}
    /\ last.r \in DOMAIN drafts

\* C12: after a successful close, whether it changed the status or found the
\* request already in the target status, the request has no draft.
C12_ClosedHasNoDraft ==
    (last.op = "close" /\ last.raised = None)
        => last.r \notin DOMAIN drafts

\* A close repeated on a request already in the target status (no closed
\* signal is sent then).
C12_Witness ==
    /\ last.op = "close"
    /\ last.raised = None
    /\ last.signals = <<>>
    /\ review_requests[last.r].public

\* C13: close with a type other than Submitted or Discarded (Pending
\* included) raises, changes nothing (status, history, draft, counters) and
\* sends no signal; the error is the input error (AttributeError) whenever
\* the caller passes the permission check that comes first.
C13_InvalidCloseTypeIsRefused ==
    [][\A r \in ReviewRequestIds, user \in Users \cup {None},
          type \in CloseTypes \ {SUBMITTED, DISCARDED},
          description \in Descriptions :
        Close(r, type, user, description)
            => /\ last'.raised \in {"AttributeError", "PermissionError"}
               /\ may_change_status(Before(r), user)
                    => last'.raised = "AttributeError"
               /\ last'.signals = <<>>
               /\ UNCHANGED db]_vars

\* A close with an invalid type refused on a closed public request that has
\* a draft.
C13_Witness ==
    /\ last.op = "close"
    /\ last.raised = "AttributeError"
    /\ review_requests[last.r].status = SUBMITTED
    /\ review_requests[last.r].public
    /\ last.r \in DOMAIN drafts

\* The review request the access questions are about.
Asked == review_requests[answer.r]

PassesChecks(self, user, local_site) ==
    /\ self.public \/ is_mutable_by(self, user)
    /\ self.repository # None
            => Repository_is_accessible_by(self.repository, user)
    /\ local_site # None => LocalSite_is_accessible_by(local_site, user)

\* The four clauses that give access to a request with targets.
ByTargets(self, user) ==
    \/ is_authenticated(user) /\ user \in self.target_people
    \/ \E g \in self.target_groups :
            Group_is_accessible_by(group_rows[g], user)
    \/ \E g \in accessible(self.submitter) :
            Group_is_accessible_by(group_rows[g], user)
    \/ self.submitter = user

\* C15: for a request that passed the publicity, repository and site checks,
\* is_accessible_by is True when it has neither target groups nor target
\* people, and otherwise (target people without target groups included) True
\* exactly when the user is a target person, or can access a target group, or
\* can access a group the submitter can access, or is the submitter.
C15_AccessByTargets ==
    (/\ answer.op = "is_accessible_by"
     /\ PassesChecks(Asked, answer.user, answer.other))
        => IF Asked.target_groups = {} /\ Asked.target_people = {}
           THEN answer.result = TRUE
           ELSE answer.result = ByTargets(Asked, answer.user)

\* R is public, its only target is the invite-only group g, it has no target
\* people, and user is about to be added to g.
OnlyInviteOnlyTarget(g, user) ==
    /\ AddGroupUser(g, user)
    /\ review_requests[1].public
    /\ review_requests[1].target_groups = {g}
    /\ review_requests[1].target_people = {}
    /\ group_rows[g].invite_only

C18_ReviewsWaitForReadyGroups ==
    answer.op = "review.is_accessible_by"
        => IF \E g \in accessible(answer.user) :
                    ~group_rows[g].ready_for_reviews
           THEN answer.result = FALSE
           ELSE answer.result
                    <=> \/ Asked.submitter = answer.user
                        \/ accessible(answer.other)
                                \cap accessible(answer.user) # {}

\* The submitter was refused a review because a group she belongs to is not
\* ready for reviews.
C18_Witness ==
    /\ answer.op = "review.is_accessible_by"
    /\ answer.user = Asked.submitter
    /\ answer.result = FALSE
    /\ \E g \in AccessGroups :
            /\ answer.user \in group_rows[g].users
            /\ group_rows[g].invite_only
            /\ ~group_rows[g].ready_for_reviews

\* The fields a draft and a live request are compared on, under the names
\* their changes are recorded with, and whether the two differ on one.
RecordedFields ==
    {"summary", "description", "testing_done", "branch", "target_groups",
     "target_people", "screenshots", "files", "bugs_closed"}

Differ(live, draft, name) ==
    CASE name = "files" -> draft.file_attachments # live.file_attachments
      [] name = "bugs_closed" ->
            set(get_bug_list(draft.bugs_closed))
                # set(get_bug_list(live.bugs_closed))
      [] OTHER -> draft[name] # live[name]

\* The draft differs from the live request in its summary and in nothing
\* else: no other field, no caption, no new diff.
OnlySummaryDiffers(live, draft) ==
    /\ \A name \in RecordedFields :
            Differ(live, draft, name) <=> name = "summary"
    /\ draft.inactive_screenshots = live.inactive_screenshots
    /\ draft.inactive_file_attachments = live.inactive_file_attachments
    /\ draft.diffset = None
    /\ caption_changed(media.screenshots, live.screenshots,
                       draft.screenshots) = {}
    /\ caption_changed(media.file_attachments, live.file_attachments,
                       draft.file_attachments) = {}

\* The ChangeDescription the step's publish returned (<<>> for None).
Returned == last'.signals[1].changedesc

\* C19, as stated: the ChangeDescription produced by publishing a draft has
\* an entry for a field (summary, description, testing_done, branch,
\* target_groups, target_people, screenshots, files, bugs_closed) if and only
\* if the draft and the live request differ on it; and publishing a draft
\* that differs only in its summary yields exactly one ChangeDescription,
\* with exactly one entry, summary {old, new}.
C19_EntriesAreTheDifferences ==
    [][\A r \in ReviewRequestIds, user \in Users :
        (Publish(r, user) /\ last'.raised = None /\ r \in DOMAIN drafts)
            => /\ Returned # <<>>
                    => \A name \in RecordedFields :
                          name \in DOMAIN Returned[1].fields_changed
                              <=> Differ(Before(r), drafts[r], name)
               /\ OnlySummaryDiffers(Before(r), drafts[r])
                    => /\ Returned # <<>>
                       /\ After(r).changedescs
                            = Before(r).changedescs \o Returned
                       /\ Returned[1].fields_changed =
                            ("summary" :> [old |-> Before(r).summary,
                                           new |-> drafts[r].summary])]_vars

\* C19, amended: the same, the part on a draft that differs only in its
\* summary for a review request that is public when it is published.
C19_EntriesAreTheDifferencesOfPublic ==
    [][\A r \in ReviewRequestIds, user \in Users :
        (Publish(r, user) /\ last'.raised = None /\ r \in DOMAIN drafts)
            => /\ Returned # <<>>
                    => \A name \in RecordedFields :
                          name \in DOMAIN Returned[1].fields_changed
                              <=> Differ(Before(r), drafts[r], name)
               /\ (Before(r).public
                        /\ OnlySummaryDiffers(Before(r), drafts[r]))
                    => /\ Returned # <<>>
                       /\ After(r).changedescs
                            = Before(r).changedescs \o Returned
                       /\ Returned[1].fields_changed =
                            ("summary" :> [old |-> Before(r).summary,
                                           new |-> drafts[r].summary])]_vars

\* A draft differing only in its summary has been published on a public
\* request: the history holds the one entry, summary "fix" -> "fix it".
C19_Witness ==
    /\ last.op = "publish"
    /\ last.raised = None
    /\ last.signals[1].changedesc # <<>>
    /\ last.signals[1].changedesc[1].fields_changed =
            ("summary" :> [old |-> "fix", new |-> "fix it"])
    /\ review_requests[last.r].changedescs = last.signals[1].changedesc
    /\ review_requests[last.r].summary = "fix it"

\* The draft differs from the live request in nothing.
NoDifferences(live, draft) ==
    /\ \A name \in RecordedFields : ~Differ(live, draft, name)
    /\ draft.inactive_screenshots = live.inactive_screenshots
    /\ draft.inactive_file_attachments = live.inactive_file_attachments
    /\ draft.diffset = None
    /\ caption_changed(media.screenshots, live.screenshots,
                       draft.screenshots) = {}
    /\ caption_changed(media.file_attachments, live.file_attachments,
                       draft.file_attachments) = {}

\* C20: publishing a draft with no differences from the live request, on a
\* request that is already public, produces no ChangeDescription: None is
\* returned and the history is as long as before.
C20_NoDifferencesNoChangeDescription ==
    [][\A r \in ReviewRequestIds, user \in Users :
        (/\ Publish(r, user)
         /\ last'.raised = None
         /\ r \in DOMAIN drafts
         /\ Before(r).public
         /\ NoDifferences(Before(r), drafts[r]))
            => /\ Returned = <<>>
               /\ Len(After(r).changedescs) = Len(Before(r).changedescs)]_vars

\* C21: every review request has at most one draft in every state, and
\* ReviewRequestDraft.create on a request that has a draft returns that
\* draft and writes nothing: the fields and target sets edited before are
\* those of the row and of the draft returned, not the live request's.
C21_OneDraftAndCreateKeepsIt ==
    /\ [](\A r \in ReviewRequestIds :
            Cardinality(drafts_of(draft_rows, r)) <= 1)
    /\ [][\A p \in Callers :
            CreateRest(p) /\ ~calls[p].draft_is_new
                => /\ draft_rows' = draft_rows
                   /\ calls'[p].draft \in drafts_of(draft_rows, calls[p].r)
                   /\ [calls'[p].instance EXCEPT !.changedesc = <<>>]
                        = [calls[p].instance EXCEPT !.changedesc = <<>>]]_vars

\* A create has returned the draft that was there, edited to a summary and
\* to target groups the live request does not have.
C21_Witness ==
    \E p \in Callers :
        /\ calls[p].pc = "done"
        /\ ~calls[p].draft_is_new /\ ~calls[p].integrity_error
        /\ calls[p].instance.summary = "fix it"
        /\ calls[p].instance.summary # review_requests[calls[p].r].summary
        /\ calls[p].instance.target_groups
                # review_requests[calls[p].r].target_groups
        /\ draft_rows[calls[p].draft].summary = "fix it"

\* C22: two ReviewRequestDraft.create calls for the same review request
\* that run at the same time never raise, and once both have returned the
\* request has exactly one draft and both have returned that draft.
C22_ConcurrentCreatesConverge ==
    /\ \A p \in Callers : calls[p].pc # "raised"
    /\ \A p, q \in Callers :
        /\ p # q
        /\ calls[p].pc = "done" /\ calls[q].pc = "done"
        /\ calls[p].r = calls[q].r
        => /\ Cardinality(drafts_of(draft_rows, calls[p].r)) = 1
           /\ calls[p].draft = calls[q].draft
           /\ calls[p].draft \in drafts_of(draft_rows, calls[p].r)

\* Both calls have returned, one of them after its INSERT was refused
\* because the other had inserted the draft in between.
C22_Witness ==
    /\ \A p \in Callers : calls[p].pc = "done"
    /\ \E p \in Callers : calls[p].integrity_error
    /\ \E p \in Callers : calls[p].draft_is_new
    /\ Len(draft_rows) = 1

\* Both concurrent publishes have returned.
BothDone == \A p \in Callers : calls[p].pc = "done"

\* C23: when the publishes of two different review requests interleave, no
\* counter update is lost: once both have returned, every group's
\* incoming_request_count, and every profile counter, is what the two
\* publishes give when run one after the other.
C23_NoCounterUpdateLost ==
    BothDone /\ calls[1].r # calls[2].r
        => /\ incoming_request_count = sequential.both.groups
           /\ site_profiles = sequential.both.profiles

\* Two different requests have been published at the same time, both to g1,
\* one for the first time and one again, and g1 counts both.
C23_Witness ==
    /\ BothDone /\ calls[1].r # calls[2].r
    /\ \A r \in RaceIds : "g1" \in review_requests[r].target_groups
    /\ \E p \in Callers : calls[p].changes # <<>>
    /\ \E p \in Callers : calls[p].changes = <<>>
    /\ incoming_request_count["g1"] = 2

\* C24: when two publishes of the same review request interleave, then once
\* both have returned every target group of the request counts it exactly
\* once: its incoming_request_count is the one after a single publish.
C24_SameRequestCountedOnce ==
    BothDone /\ calls[1].r = calls[2].r
        => \A g \in review_requests[calls[1].r].target_groups :
                incoming_request_count[g] = sequential.once.groups[g]

\* The row of review request r holds the same status, public flag and
\* targets before and after the step: no transition has been persisted.
NotPersisted(r) ==
    /\ After(r).status = Before(r).status
    /\ After(r).public = Before(r).public
    /\ After(r).target_groups = Before(r).target_groups
    /\ After(r).target_people = Before(r).target_people

\* C25: a publish, close or reopen that is stopped by a failure before the
\* review request is finally saved, and so has persisted no transition,
\* has moved no group or profile counter.
C25_FailureBeforePersistLeavesCounters ==
    [][\A r \in ReviewRequestIds :
        /\ \/ \E user \in Users, step \in PublishSteps \ {"send"} :
                PublishFails(r, user, step)
           \/ \E type \in CloseTypes, user \in Users \cup {None},
                 description \in Descriptions :
                CloseFails(r, type, user, description, "save")
           \/ \E user \in Users \cup {None} : ReopenFails(r, user, "save")
        /\ NotPersisted(r)
        => /\ incoming_request_count' = incoming_request_count
           /\ site_profiles' = site_profiles]_vars

\* C27: when a receiver of the published, closed or reopened signal raises,
\* what is persisted is what a successful call persists: the request is
\* public after publish and has no draft, has the status asked for after
\* close, with the status change in its history, and has no draft, and is
\* Pending after reopen.
C27_FailedDeliveryPersistsTheSame ==
    [][\A r \in ReviewRequestIds :
        /\ \A user \in Users :
            PublishFails(r, user, "send")
                => After(r).public /\ r \notin DOMAIN drafts'
        /\ \A type \in CloseTypes, user \in Users \cup {None},
              description \in Descriptions :
            CloseFails(r, type, user, description, "send")
                => /\ After(r).status = type
                   /\ Len(After(r).changedescs)
                        = Len(Before(r).changedescs) + 1
                   /\ r \notin DOMAIN drafts'
        /\ \A user \in Users \cup {None} :
            ReopenFails(r, user, "send")
                => After(r).status = PENDING_REVIEW]_vars

\* The review requests there are before and after the step.
Kept == DOMAIN review_requests \cap DOMAIN review_requests'

\* C26 as stated: a ChangeDescription in a request's history is never
\* changed by a later create, draft edit, publish, close or reopen: its
\* text, timestamp and recorded fields stay, at its place in the history.
C26_PublicHistoryIsAppendOnly ==
    [][\A r \in Kept :
        \A i \in 1..Len(Before(r).changedescs) :
            /\ i <= Len(After(r).changedescs)
            /\ After(r).changedescs[i] = Before(r).changedescs[i]]_vars

\* C26 amended: an entry of the history stays in its place, public, with its
\* recorded fields, and its text and timestamp are changed by one call
\* only: a close to the status the request already has, which sends no
\* signal, and then it is the latest public entry that is changed.
C26_PublicHistoryChangedByRepeatedCloseOnly ==
    [][\A r \in Kept :
        \A i \in 1..Len(Before(r).changedescs) :
            /\ i <= Len(After(r).changedescs)
            /\ After(r).changedescs[i].public
            /\ After(r).changedescs[i].fields_changed
                    = Before(r).changedescs[i].fields_changed
            /\ After(r).changedescs[i] # Before(r).changedescs[i]
                => /\ last'.op = "close" /\ last'.raised = None
                   /\ last'.signals = <<>>
                   /\ After(r).status = Before(r).status
                   /\ i = latest_public(Before(r).changedescs)]_vars

\* A close to the status the request has had since an earlier close has
\* just rewritten the text and the timestamp of the entry of that close.
C26_Witness ==
    \E r \in DOMAIN review_requests :
        /\ last.op = "close" /\ last.raised = None /\ last.signals = <<>>
        /\ \E i \in 1..Len(review_requests[r].changedescs) :
            /\ review_requests[r].changedescs[i].text = "done"
            /\ review_requests[r].changedescs[i].timestamp = now
            /\ now > 1

\* The rules that apply to the repository, whose pattern compiles and
\* matches the path of at least one of the files.
Activated(repository, files) ==
    {i \in DOMAIN default_reviewers :
        /\ \/ default_reviewers[i].repository = {}
           \/ repository \in default_reviewers[i].repository
        /\ re_compiles(default_reviewers[i].file_regex)
        /\ \E k \in DOMAIN files :
            re_match(default_reviewers[i].file_regex,
                     source_file_or_dest_file(files[k]))}

\* The people, or the groups, of those rules.
Contributed(repository, files, field) ==
    UNION {default_reviewers[i][field] : i \in Activated(repository, files)}

\* The rules that apply to the repository and do not compile.
Malformed(repository) ==
    {i \in DOMAIN default_reviewers :
        /\ \/ default_reviewers[i].repository = {}
           \/ repository \in default_reviewers[i].repository
        /\ ~re_compiles(default_reviewers[i].file_regex)}

\* C28: add_default_reviewers on a review request with one diff, and on a
\* draft with a diff, does not raise whatever the patterns of the rules
\* are, and adds the people and groups of the rules that compile and match.
C28_MalformedPatternIsSkipped ==
    [][\A r \in ReviewRequestIds :
        /\ AddDefaultReviewers(r) /\ Before(r).diffset_history = {"r1"}
            => /\ last'.raised = None
               /\ After(r).target_people = Before(r).target_people \cup
                    Contributed(Before(r).repository, filediffs["r1"],
                                "people")
               /\ After(r).target_groups = Before(r).target_groups \cup
                    Contributed(Before(r).repository, filediffs["r1"],
                                "groups")
        /\ DraftAddDefaultReviewers(r) /\ drafts[r].diffset = "r1"
            => /\ last'.raised = None
               /\ drafts'[r].target_people = drafts[r].target_people \cup
                    Contributed(Before(r).repository, filediffs["r1"],
                                "people")
               /\ drafts'[r].target_groups = drafts[r].target_groups \cup
                    Contributed(Before(r).repository, filediffs["r1"],
                                "groups")]_vars

\* C29: ReviewRequestDraft.add_default_reviewers on a draft with a diff
\* leaves the draft's target people and groups as the previous ones united
\* with the people and groups of every rule that applies to the repository
\* and matches the path of at least one file of the diff, and changes
\* nothing else of the draft.
C29_DraftTargetsAreUnitedWithMatchingRules ==
    [][\A r \in ReviewRequestIds :
        DraftAddDefaultReviewers(r) /\ drafts[r].diffset # None
            => LET files == filediffs[drafts[r].diffset]
                   repository == Before(r).repository
               IN drafts' = [drafts EXCEPT ![r] =
                    [@ EXCEPT
                        !.target_people =
                            @ \cup Contributed(repository, files, "people"),
                        !.target_groups =
                            @ \cup Contributed(repository, files, "groups")]]
       ]_vars

\* A draft that targeted alice and no group has been given bob by the
\* first rule, which matches, and not g1: the second rule applies to the
\* repository and compiles but matches no file.
C29_Witness ==
    /\ last.op = "draft.add_default_reviewers" /\ last.raised = None
    /\ drafts[1].diffset # None
    /\ drafts[1].target_people = {"alice", "bob"}
    /\ drafts[1].target_groups = {}
    /\ default_reviewers[1].groups = {}
    /\ default_reviewers[2].repository = {"repo"}
    /\ default_reviewers[2].file_regex = "docs/.*"
    /\ Activated("repo", filediffs["r1"]) = {1}

\* The scalar fields and the relations ReviewRequestDraft.publish copies.
CopiedFields ==
    {"summary", "description", "testing_done", "branch", "target_groups",
     "target_people", "screenshots", "inactive_screenshots",
     "file_attachments", "inactive_file_attachments"}

\* C30: after the draft of a review request is published, the request's
\* summary, description, testing_done and branch are the draft's, its
\* target groups, target people, screenshots and file attachments, active
\* and inactive, are the draft's id sets, and the set of its bugs is the set
\* of the draft's bugs.
C30_LiveEqualsDraftAfterPublish ==
    [][\A r \in ReviewRequestIds, user \in Users :
        Publish(r, user) /\ last'.raised = None /\ r \in DOMAIN drafts
            => /\ \A name \in CopiedFields : After(r)[name] = drafts[r][name]
               /\ set(get_bug_list(After(r).bugs_closed))
                    = set(get_bug_list(drafts[r].bugs_closed))]_vars

\* A published request (summary "fix", description "why", bugs "2,1", group
\* g1, screenshot 1) has been published again from a draft that differed in
\* every field: the changes are recorded and the request has the draft's
\* values.
C30_Witness ==
    /\ last.op = "publish" /\ last.raised = None
    /\ last.signals[1].changedesc # <<>>
    /\ {"summary", "description", "testing_done", "branch", "bugs_closed",
        "target_groups", "target_people", "screenshots", "files"}
            \subseteq DOMAIN last.signals[1].changedesc[1].fields_changed
    /\ review_requests[1].summary = "fix it"
    /\ review_requests[1].description = "how"
    /\ review_requests[1].bugs_closed = "3"
    /\ review_requests[1].target_groups = {}
    /\ review_requests[1].target_people = {"bob"}
    /\ review_requests[1].screenshots = {}
    /\ review_requests[1].inactive_screenshots = {1}
    /\ review_requests[1].file_attachments = {1}

\* C31: ReviewRequestDraft.publish changes no counter: every group's
\* incoming count and every profile counter is after the call what it was
\* before it, whatever the draft's targets are.
C31_DraftPublishKeepsCounters ==
    [][\A r \in ReviewRequestIds :
          DraftPublish(r) =>
            /\ incoming_request_count' = incoming_request_count
            /\ site_profiles' = site_profiles]_vars

\* A draft that changed the target groups of a public request was published.
C31_Witness ==
    /\ last.op = "draft_publish"
    /\ review_requests[1].public
    /\ review_requests[1].status = PENDING_REVIEW
    /\ last.signals[1].changedesc # <<>>
    /\ "target_groups" \in DOMAIN last.signals[1].changedesc[1].fields_changed
    /\ review_requests[1].target_groups = {}
    /\ incoming_request_count["g1"] = 1

\* C32: from a reopen of a Discarded request to the next successful publish
\* the request is not public: the reopen leaves it non-public, and no step
\* other than a publish that returns (a draft creation or edit, a close, a
\* reopen, a call that is refused) makes a non-public request public.
C32_NonPublicUntilPublished ==
    [][\A r \in Kept :
        /\ (/\ last'.op = "reopen" /\ last'.raised = None /\ last'.r = r
            /\ Before(r).status = DISCARDED)
                => ~After(r).public
        /\ (/\ ~Before(r).public
            /\ ~(last'.op = "publish" /\ last'.raised = None /\ last'.r = r))
                => ~After(r).public]_vars

\* The draft of a request reopened from Discarded, which carries the
\* ChangeDescription of the reopening, has been edited, and the request is
\* not public.
C32_Witness ==
    /\ last.op = "draft_edit"
    /\ last.r \in DOMAIN drafts
    /\ drafts[last.r].changedesc # <<>>
    /\ drafts[last.r].changedesc[1].fields_changed
            = StatusChange(DISCARDED, PENDING_REVIEW)
    /\ drafts[last.r].target_groups # {}
    /\ ~review_requests[last.r].public
    /\ review_requests[last.r].status = PENDING_REVIEW

\* C33: a call of ReviewRequest.publish that returns sends exactly one
\* signal, review_request_published, whose changedesc is the
\* ChangeDescription the draft's publish returned, or None when the request
\* had no draft; the draft's publish inside it sends nothing.
C33_OnePublishedSignal ==
    [][\A r \in ReviewRequestIds, user \in Users :
        (Publish(r, user) /\ last'.raised = None)
            => last'.signals =
                <<Signal("review_request_published", r, None,
                    IF r \in DOMAIN drafts
                    THEN draft_publish(drafts[r], review_requests[r],
                                       now + 1).changedesc
                    ELSE <<>>)>>]_vars

\* A publish of a public request with an edited draft has sent its signal,
\* which carries the ChangeDescription now last in the history.
C33_Witness ==
    /\ last.op = "publish"
    /\ last.raised = None
    /\ Len(last.signals) = 1
    /\ last.signals[1].changedesc # <<>>
    /\ last.signals[1].changedesc[1].fields_changed # <<>>
    /\ LET h == review_requests[last.r].changedescs
       IN h # <<>> /\ h[Len(h)] = last.signals[1].changedesc[1]

\* The list without the repetitions of an element already in it.
RECURSIVE dedupe(_)
dedupe(list) ==
    IF list = <<>> THEN <<>>
    ELSE LET front == dedupe(SubSeq(list, 1, Len(list) - 1))
             x == list[Len(list)]
         IN IF x \in set(front) THEN front ELSE Append(front, x)

\* The canonical form of a bug string: its sorted ids, each once, joined
\* with commas.
Canonical(bugs_closed) == join(dedupe(get_bug_list(bugs_closed)))

\* C34: the bug string stored on every review request row and every draft
\* row is in canonical form: it is the comma-joined, sorted, duplicate-free
\* list of the ids it contains.
C34_StoredBugsAreCanonical ==
    /\ \A r \in DOMAIN review_requests :
            review_requests[r].bugs_closed
                = Canonical(review_requests[r].bugs_closed)
    /\ \A r \in DOMAIN drafts :
            drafts[r].bugs_closed = Canonical(drafts[r].bugs_closed)

NonEmpty(x) == x # ""

\* The bug ids of a bug string: what stands between its separators.
ids(bugs_closed) ==
    SelectSeq(re_split(bugs_closed, 1, "", <<>>, FALSE), NonEmpty)

AllNumeric(bugs_closed) ==
    \A i \in 1..Len(ids(bugs_closed)) : is_int(ids(bugs_closed)[i])

\* A list of numbers in ascending order, and a list in the order of strings.
Ascending(list) ==
    /\ \A i \in 1..Len(list) : is_int(list[i])
    /\ \A i \in 1..(Len(list) - 1) : int(list[i]) <= int(list[i + 1])

Lexical(list) ==
    \A i \in 1..(Len(list) - 1) : ~str_lt(list[i + 1], list[i])

\* get_bug_list followed by ','.join.
NormalizeBugIds(bugs_closed) == join(get_bug_list(bugs_closed))

\* C35: normalising a bug string twice gives what normalising it once
\* gives, and get_bug_list returns the ids in ascending numeric order when
\* every id of the string is a number, and in the order of strings when one
\* is not.
C35_NormalizeIsIdempotentAndOrdered ==
    answer.op = "get_bug_list"
        => /\ NormalizeBugIds(NormalizeBugIds(answer.other))
                = NormalizeBugIds(answer.other)
           /\ IF AllNumeric(answer.other)
              THEN Ascending(answer.result)
              ELSE Lexical(answer.result)

\* a is what b begins with.
Prefix(a, b) == Len(a) <= Len(b) /\ a = SubSeq(b, 1, Len(a))

\* The sentence boundaries of a summary within its first MAX_SUMMARY_LENGTH
\* characters, and the last of them.
Boundaries(summary) ==
    {i \in 1..MAX_SUMMARY_LENGTH :
        i <= Len(summary) /\ SubSeq(summary, i, i) = "."}

LastBoundary(summary) ==
    CHOOSE i \in Boundaries(summary) : \A j \in Boundaries(summary) : j <= i

\* A save by caller p, and the summary on the row after it.
Saves(p) == RequestSave(p) \/ DraftSave(p)

Persisted(p) ==
    IF calls[p].model = "ReviewRequest"
    THEN review_requests'[1].summary
    ELSE drafts'[1].summary

\* C36 as stated: the summary persisted is a prefix of the one given, of at
\* most 300 characters; it is the one given when that has at most 300
\* characters, and otherwise it ends at the last '.' within the first 300
\* characters; truncating it again changes nothing.
C36_SummaryEndsAtSentenceBoundary ==
    [][\A p \in DOMAIN calls :
        Saves(p) =>
            LET input == calls[p].summary
                stored == Persisted(p)
            IN /\ Prefix(stored, input)
               /\ Len(stored) <= MAX_SUMMARY_LENGTH
               /\ Len(input) <= MAX_SUMMARY_LENGTH => stored = input
               /\ Len(input) > MAX_SUMMARY_LENGTH
                    => /\ Boundaries(input) # {}
                       /\ Len(stored) = LastBoundary(input)
               /\ truncate(stored, MAX_SUMMARY_LENGTH) = stored]_vars

\* C36, amended: as above, but a summary of more than 300 characters with
\* no '.' among the first 300 is cut after the 300th character.
C36_SummaryIsCutAtBoundaryOrLimit ==
    [][\A p \in DOMAIN calls :
        Saves(p) =>
            LET input == calls[p].summary
                stored == Persisted(p)
            IN /\ Prefix(stored, input)
               /\ Len(stored) <= MAX_SUMMARY_LENGTH
               /\ Len(input) <= MAX_SUMMARY_LENGTH => stored = input
               /\ Len(input) > MAX_SUMMARY_LENGTH
                    => Len(stored) = IF Boundaries(input) = {}
                                     THEN MAX_SUMMARY_LENGTH
                                     ELSE LastBoundary(input)
               /\ truncate(stored, MAX_SUMMARY_LENGTH) = stored]_vars

\* A summary of more than 300 characters with two full stops among the
\* first 300 has been saved, and saved again: the row holds it up to the
\* second.
C36_Witness ==
    /\ 1 \in DOMAIN calls
    /\ calls[1].pc = "saved again"
    /\ calls[1].model = "ReviewRequest"
    /\ Len(calls[1].given) > MAX_SUMMARY_LENGTH
    /\ Cardinality(Boundaries(calls[1].given)) = 2
    /\ Len(review_requests[1].summary) < MAX_SUMMARY_LENGTH
    /\ Len(review_requests[1].summary) = LastBoundary(calls[1].given)

\* C37: ReviewRequest.publish by a user who may edit the request returns
\* whatever the status is, Pending, Submitted or Discarded, and leaves the
\* status as it was.
C37_PublishKeepsStatus ==
    [][\A r \in ReviewRequestIds, user \in Users :
        (Publish(r, user) /\ is_mutable_by(Before(r), user))
            => /\ last'.raised = None
               /\ After(r).status = Before(r).status
               /\ After(r).status
                    \in {PENDING_REVIEW, SUBMITTED, DISCARDED}]_vars

\* The draft of a Submitted request has been published: the request is
\* public and still Submitted.
C37_Witness ==
    /\ last.op = "publish"
    /\ last.raised = None
    /\ last.signals[1].changedesc # <<>>
    /\ review_requests[last.r].status = SUBMITTED
    /\ review_requests[last.r].public

\* C38: when close is called on a request that already has the status asked
\* for, every ChangeDescription of the history that the call changes (its
\* text and timestamp are overwritten) records a change of the status to
\* that status.
C38_RepeatedCloseRewritesTheClose ==
    [][\A r \in ReviewRequestIds, type \in {SUBMITTED, DISCARDED},
          user \in Users \cup {None}, description \in Descriptions :
        (/\ Close(r, type, user, description)
         /\ last'.raised = None
         /\ Before(r).status = type)
            => \A i \in 1..Len(Before(r).changedescs) :
                After(r).changedescs[i] # Before(r).changedescs[i]
                    => LET fields == Before(r).changedescs[i].fields_changed
                       IN /\ "status" \in DOMAIN fields
                          /\ fields["status"].new = type]_vars

\* C40: a reopen that returns sends review_request_reopened if and only if
\* it changed the status to Pending; on a request that is already Pending
\* it sends nothing.
C40_ReopenedSignalIffStatusChanged ==
    [][\A r \in ReviewRequestIds, user \in Users \cup {None} :
        (Reopen(r, user) /\ last'.raised = None)
            => ((\E i \in 1..Len(last'.signals) :
                    last'.signals[i].signal = "review_request_reopened")
                <=> (/\ Before(r).status # PENDING_REVIEW
                     /\ After(r).status = PENDING_REVIEW))]_vars

\* The public reviews of review request r that are marked ship-it.
public_ship_its(r) ==
    {id \in DOMAIN reviews :
        /\ reviews[id].review_request = r
        /\ reviews[id].public
        /\ reviews[id].ship_it}

\* C39: the ship-it counter of every review request is the number of its
\* public reviews marked ship-it, after any sequence of Review.publish
\* calls, a second publish of a public review included.
C39_ShipItCountIsRecomputed ==
    \A r \in DOMAIN shipit_count :
        shipit_count[r] = Cardinality(public_ship_its(r))

====
